---- MODULE Spec2Model ----
(***************************************************************************)
(* State-machine model of the ESN-Pulse crawl-and-extract pipeline:        *)
(* chunk planning, staleness scheduling, upserts, the fetch client and     *)
(* the chunk dispatcher.                                                   *)
(***************************************************************************)
EXTENDS Integers, Sequences, FiniteSets, TLC

\* ------------------------------------------------------------------ bounds
MaxLastPage == 12
MaxChunkSize == 5

MaxInitTime == 2        \* last_scraped values already stored when a run starts
MaxSections == 2        \* largest max_sections limit tried by the record crawl
MaxUpserts == 2         \* upserts applied in a row to the activities tables
MaxActs == 2            \* activities one worker scraped for its organisation

\* ------------------------------------------------------------ the source
Slugs == {"esn-lille", "esn-metu", "esn-kti"}
\* Countries in the order of the links on the accounts start page.
SiteCountries == <<"FR", "TR">>
\* Sections in the order of the links on each country page.
SiteSections == [c \in {"FR", "TR"} |->
                    IF c = "FR" THEN <<"esn-lille">> ELSE <<"esn-metu", "esn-kti">>]

VARIABLES
    cp_pc,        \* chunk planner: "start" | "done"
    cp_lastPage,  \* argument last_page of create_chunks
    cp_chunkSize, \* argument chunk_size of create_chunks
    cp_chunks,    \* the returned list of (start, end) tuples
    sections,     \* table sections: slug -> row
    countries,    \* table countries: country_code -> row
    db_now,       \* the database clock read by NOW()
    run,          \* which crawl runs: "accounts" | "activities" | "none"
    run_pc,       \* position of the run
    run_snapshot, \* last_scraped of every section when the run queried it
    run_queue,    \* countries (accounts) or section rows (activities) to loop over
    run_i,        \* index into run_queue
    run_sections, \* accounts: sections of the current country still to process
    run_processed,\* slugs in the order the run processed them
    run_results,  \* the results dict of the run
    run_checks,   \* slug -> what validate_activities_slug saw in this run
    activities,   \* table activities (event_slug unique): set of rows
    legacy,       \* tables organisations, statistics, activities of database_utils
    up_recs,      \* upserts applied so far, oldest first
    up_hist,      \* the store before the first upsert and after each one
    w_pc,         \* worker thread -> position in process_organisation_data
    w_data,       \* worker thread -> the data it scraped
    w_i,          \* worker thread -> index of the next activity to insert
    w_result,     \* worker thread -> result of save_scraped_data
    w_last,       \* <<table, key>> -> the row of the last committed upsert
    fetch,        \* one call of BaseScraper.get_page_content and what it did
    parse,        \* one call of a detail parser: its document and its result
    ex,           \* one extraction of a section's activities, chunk by chunk
    lg,           \* one organisation's activities scraped and saved by the
                  \* ActivitiesScraper of src/scraping
    pg,           \* one call of the pagination analysis: its link and result
    gate,         \* one call of the validation gate: its report and result
    stats,        \* one statistics page scraped (and, on the legacy path, saved)
    loc,          \* one location extraction: its detail document and its result
    pace,         \* one fetch client instance, its clock and the requests it sent
    dp,           \* one dispatcher call: its chunk tasks, their time and records
    batch,        \* the summary counters of process_all_branches_with_details
    res           \* one scraper run: its HTTP session and its database connection

cpVars == <<cp_pc, cp_lastPage, cp_chunkSize, cp_chunks>>
runVars == <<sections, countries, db_now, run, run_pc, run_snapshot,
             run_queue, run_i, run_sections, run_processed, run_results,
             run_checks>>

dbVars == <<activities, legacy, up_recs, up_hist>>
wVars == <<w_pc, w_data, w_i, w_result, w_last>>

vars == <<cp_pc, cp_lastPage, cp_chunkSize, cp_chunks,
          sections, countries, db_now, run, run_pc, run_snapshot, run_queue,
          run_i, run_sections, run_processed, run_results, run_checks,
          activities, legacy, up_recs, up_hist,
          w_pc, w_data, w_i, w_result, w_last, fetch, parse, ex, lg, pg, gate,
          stats,
          loc, pace, dp, batch, res>>


Min(a, b) == IF a <= b THEN a ELSE b

\* Python range(start, stop, step) for step >= 1, as a sequence.
RECURSIVE PyRange(_, _, _)
PyRange(start, stop, step) ==
    IF start >= stop THEN << >>
    ELSE <<start>> \o PyRange(start + step, stop, step)

\* create_chunks with the chunk end computed as i + chunk_size (one too far)
create_chunks_overlap(last_page, chunk_size) ==
    LET r == PyRange(0, last_page + 1, chunk_size)
    IN [k \in 1..Len(r) |-> <<r[k], Min(r[k] + chunk_size, last_page)>>]

\* create_chunks: [(i, min(i + chunk_size - 1, last_page)) for i in range(0, last_page + 1, chunk_size)]
create_chunks(last_page, chunk_size) ==
    LET r == PyRange(0, last_page + 1, chunk_size)
    IN [k \in 1..Len(r) |-> <<r[k], Min(r[k] + chunk_size - 1, last_page)>>]

\* --------------------------------------------------------- chunk planner
CpInit ==
    /\ cp_pc = "start"
    /\ cp_lastPage \in 0..MaxLastPage
    /\ cp_chunkSize \in 1..MaxChunkSize
    /\ cp_chunks = << >>

CreateChunks ==
    /\ cp_pc = "start"
    /\ cp_chunks' = create_chunks(cp_lastPage, cp_chunkSize)
    /\ cp_pc' = "done"
    /\ UNCHANGED <<cp_lastPage, cp_chunkSize>>
    /\ UNCHANGED <<runVars, dbVars, wVars, fetch, parse, ex, lg, pg, gate,
                   stats, loc, pace, dp, batch, res>>

CpIdle == cp_pc = "idle" /\ cp_lastPage = 0 /\ cp_chunkSize = 1 /\ cp_chunks = << >>


\* ------------------------------------------------- sections table (SQL)
NoRow == [present |-> FALSE, last_scraped |-> 0, can_scrape |-> FALSE]

\* INSERT INTO sections ... ON CONFLICT (accounts_platform_slug) DO UPDATE:
\* last_scraped is not in the column list, so it is NULL (0) for a new row
\* and kept for an existing one.
insert_section(tbl, slug, can) ==
    [tbl EXCEPT ![slug] = [present |-> TRUE,
                           last_scraped |-> IF tbl[slug].present
                                            THEN tbl[slug].last_scraped ELSE 0,
                           can_scrape |-> can]]

\* UPDATE sections SET last_scraped = NOW() WHERE id = $1
update_section_last_scraped(tbl, slug, now) ==
    IF tbl[slug].present THEN [tbl EXCEPT ![slug].last_scraped = now] ELSE tbl

CountryCodes == {"FR", "TR"}

NoCountry == [present |-> FALSE, section_count |-> 0]

\* the CountryModel built for every link of the accounts start page:
\* section_count=0 ("Will be updated later")
extract_countries_row == [present |-> TRUE, section_count |-> 0]

\* INSERT INTO countries ... ON CONFLICT (country_code) DO UPDATE SET ...
\* section_count = EXCLUDED.section_count
insert_country(tbl, code, country_data) ==
    [tbl EXCEPT ![code] = country_data]

\* for country in countries: await self.db_ops.insert_country(country_data)
RECURSIVE InsertCountries(_, _)
InsertCountries(tbl, codes) ==
    IF codes = << >> THEN tbl
    ELSE InsertCountries(insert_country(tbl, Head(codes), extract_countries_row),
                         Tail(codes))

Perms(S) == {f \in [1..Cardinality(S) -> S] :
                \A i, j \in 1..Cardinality(S) : i # j => f[i] # f[j]}

\* ORDER BY last_scraped ASC NULLS FIRST (NULL is 0, timestamps are >= 1);
\* rows with equal keys come in any order.
OrderedByLastScraped(tbl, S) ==
    {q \in Perms(S) : \A i, j \in 1..Len(q) :
        i < j => tbl[q[i]].last_scraped <= tbl[q[j]].last_scraped}

Limit(q, limit) == IF limit # 0 THEN SubSeq(q, 1, Min(limit, Len(q))) ELSE q

\* SELECT * FROM sections ORDER BY last_scraped ASC NULLS FIRST [LIMIT n]
get_sections_by_last_scraped(tbl, limit) ==
    {Limit(q, limit) : q \in OrderedByLastScraped(tbl, {s \in Slugs : tbl[s].present})}

\* SELECT * FROM sections WHERE can_scrape_activities = TRUE
\* ORDER BY last_scraped ASC NULLS FIRST [LIMIT n]
get_sections_to_scrape(tbl, limit) ==
    {Limit(q, limit) : q \in OrderedByLastScraped(tbl,
        {s \in Slugs : tbl[s].present /\ tbl[s].can_scrape})}

\* ------------------------------------------- upserts (SQL ON CONFLICT)
EventSlugs == {"boat-party", "city-tour"}
Titles == {"Boat Party", "City Tour"}
\* The columns of one insert_activity call.  title stands for the text
\* columns (url, title, description, city, country_code, activity_type),
\* start_date for the date columns, and participants and is_valid for
\* themselves; every column of the statement is in the DO UPDATE SET list.
ActivityData == [event_slug : EventSlugs, title : Titles, start_date : {1},
                 participants : {0, 160}, is_valid : BOOLEAN]

\* insert_activity whose DO UPDATE SET list misses is_valid
insert_activity_keeps_is_valid(tbl, d, now, dflt) ==
    IF \E row \in tbl : row.event_slug = d.event_slug
    THEN {IF row.event_slug = d.event_slug
          THEN [event_slug |-> row.event_slug, title |-> d.title,
                start_date |-> d.start_date, participants |-> d.participants,
                is_valid |-> row.is_valid, updated_at |-> now]
          ELSE row : row \in tbl}
    ELSE tbl \cup {[event_slug |-> d.event_slug, title |-> d.title,
                    start_date |-> d.start_date, participants |-> d.participants,
                    is_valid |-> d.is_valid, updated_at |-> dflt]}

\* DatabaseOperations.insert_activity: INSERT ... ON CONFLICT (event_slug)
\* DO UPDATE SET <every column> = EXCLUDED.<column>, updated_at = NOW().
\* dflt is the column default of updated_at taken by a fresh row.
insert_activity(tbl, d, now, dflt) ==
    IF \E row \in tbl : row.event_slug = d.event_slug
    THEN {IF row.event_slug = d.event_slug
          THEN [event_slug |-> row.event_slug, title |-> d.title,
                start_date |-> d.start_date, participants |-> d.participants,
                is_valid |-> d.is_valid, updated_at |-> now]
          ELSE row : row \in tbl}
    ELSE tbl \cup {[event_slug |-> d.event_slug, title |-> d.title,
                    start_date |-> d.start_date, participants |-> d.participants,
                    is_valid |-> d.is_valid, updated_at |-> dflt]}

Orgs == {"esn-lille", "esn-metu"}
ActIds == {"a1", "a2"}
Versions == {"v1", "v2"}
\* The parameters of one insert_activity_data call: activity_title stands for
\* the text columns, participant_count for itself.
LegacyActivity == [activity_id : ActIds, organisation_id : Orgs,
                   activity_title : Versions, participant_count : Versions]

\* Generic INSERT ... ON CONFLICT (key) DO UPDATE SET <every other column>
\* on a table held as a set of rows.
Upsert(tbl, keycol, d) ==
    IF \E row \in tbl : row[keycol] = d[keycol]
    THEN {IF row[keycol] = d[keycol] THEN d ELSE row : row \in tbl}
    ELSE tbl \cup {d}

\* insert_activity_data that updates only the title of an existing row
insert_activity_data_partial(tbl, a) ==
    IF \E row \in tbl : row.activity_id = a.activity_id
    THEN {IF row.activity_id = a.activity_id
          THEN [row EXCEPT !.activity_title = a.activity_title] ELSE row : row \in tbl}
    ELSE tbl \cup {a}

\* insert_activity_data: ON CONFLICT (activity_id) DO UPDATE SET
\* organisation_id, activity_title, ..., activity_organiser
insert_activity_data(tbl, a) == Upsert(tbl, "activity_id", a)

\* insert_organisation_data: ON CONFLICT (organisation_id) DO UPDATE SET ...
insert_organisation_data(tbl, o) == Upsert(tbl, "organisation_id", o)

\* insert_statistics_data: ON CONFLICT (organisation_id) DO UPDATE SET ...
insert_statistics_data(tbl, st) == Upsert(tbl, "organisation_id", st)

EmptyLegacy == [organisations |-> {}, statistics |-> {}, activities |-> {}]

\* FOREIGN KEY (organisation_id) REFERENCES organisations (organisation_id)
\* of the activities and statistics tables
HasOrganisation(db, organisation_id) ==
    \E o \in db.organisations : o.organisation_id = organisation_id

\* rows that earlier runs can have left in the activities table of
\* DatabaseOperations: at most one per event_slug (its unique key)
StoredActivities ==
    {[event_slug |-> "boat-party", title |-> "City Tour", start_date |-> 1,
      participants |-> 160, is_valid |-> FALSE, updated_at |-> 0],
     [event_slug |-> "city-tour", title |-> "City Tour", start_date |-> 1,
      participants |-> 0, is_valid |-> TRUE, updated_at |-> 0]}

\* rows that earlier saves can have left in the activities table of
\* database_utils: at most one per activity_id (its primary key)
StoredLegacyActivities ==
    {[activity_id |-> "a1", organisation_id |-> "esn-lille",
      activity_title |-> "v2", participant_count |-> "v1"],
     [activity_id |-> "a2", organisation_id |-> "esn-metu",
      activity_title |-> "v1", participant_count |-> "v2"]}

\* the tables as create_tables_if_not_exist made them, with the rows that
\* earlier runs and saves have left; an activity row of database_utils has
\* its organisation row (foreign key)
DbInit ==
    /\ activities \in SUBSET StoredActivities
    /\ \E saved \in SUBSET Orgs, acts \in SUBSET StoredLegacyActivities :
         /\ \A a \in acts : a.organisation_id \in saved
         /\ legacy = [organisations |->
                         {[organisation_id |-> o, organisation_name |-> "v1",
                           city |-> "v1"] : o \in saved},
                      statistics |-> {},
                      activities |-> acts]
    /\ up_recs = << >>
    /\ up_hist = << [activities |-> activities,
                     legacy |-> legacy.activities] >>

DbIdle ==
    /\ activities = {}
    /\ legacy = EmptyLegacy
    /\ up_recs = << >>
    /\ up_hist = << >>

\* one call of DatabaseOperations.insert_activity(activity_data)
InsertActivity ==
    /\ Len(up_recs) < MaxUpserts
    /\ \E d \in ActivityData, dflt \in {0, db_now} :
        /\ activities' = insert_activity(activities, d, db_now, dflt)
        /\ up_recs' = Append(up_recs, [fn |-> "insert_activity", d |-> d])
    /\ db_now' = db_now + 1
    /\ up_hist' = Append(up_hist, [activities |-> activities',
                                   legacy |-> legacy.activities])
    /\ UNCHANGED legacy
    /\ UNCHANGED <<sections, countries, run_checks, run, run_pc, run_snapshot, run_queue,
                   run_i, run_sections, run_processed, run_results>>
    /\ UNCHANGED <<cpVars, wVars, fetch, parse, ex, lg, pg, gate, stats, loc, pace,
                   dp, batch, res>>

\* one call of insert_activity_data(conn, activity): it commits when the
\* organisation of the activity is in the organisations table; otherwise
\* the INSERT raises on the foreign key, the call rolls back and returns
\* False, and no upsert has been applied
InsertActivityData ==
    /\ Len(up_recs) < MaxUpserts
    /\ \E a \in LegacyActivity :
        IF HasOrganisation(legacy, a.organisation_id)
        THEN /\ legacy' = [legacy EXCEPT
                             !.activities =
                                 insert_activity_data(legacy.activities, a)]
             /\ up_recs' = Append(up_recs,
                                  [fn |-> "insert_activity_data", d |-> a])
             /\ up_hist' = Append(up_hist,
                                  [activities |-> activities,
                                   legacy |-> legacy'.activities])
        ELSE UNCHANGED <<legacy, up_recs, up_hist>>
    /\ UNCHANGED activities
    /\ UNCHANGED <<cpVars, runVars, wVars, fetch, parse, ex, lg, pg, gate,
                   stats, loc, pace, dp, batch, res>>

NextUpsert == InsertActivity \/ InsertActivityData

\* ------------------------- worker threads of process_all_branches_with_details
Threads == {"t1", "t2"}
\* Every value a thread writes carries the thread's own version tag, so a row
\* mixing two writers is visible.
Tag(t) == IF t = "t1" THEN "v1" ELSE "v2"

SeqsNoRep(S, n) == UNION {{q \in [1..k -> S] :
                             \A i, j \in 1..k : i # j => q[i] # q[j]} : k \in 0..n}

OrgRow(t, org) == [organisation_id |-> org, organisation_name |-> Tag(t),
                   city |-> Tag(t)]
StatRow(t, org) == [organisation_id |-> org, total_participants |-> Tag(t),
                    total_physical_activities |-> Tag(t)]
ActRow(t, org, id) == [activity_id |-> id, organisation_id |-> org,
                       activity_title |-> Tag(t), participant_count |-> Tag(t)]

Keys == ({"organisations", "statistics"} \X Orgs) \cup ({"activities"} \X ActIds)

WInit ==
    /\ w_pc = [t \in Threads |-> "check"]
    /\ w_data \in [Threads -> [org : Orgs, acts : SeqsNoRep(ActIds, MaxActs)]]
    /\ w_i = [t \in Threads |-> 1]
    /\ w_result = [t \in Threads |-> "none"]
    /\ w_last = [k \in Keys |-> {}]

\* what can go wrong in check_organisation_exists: get_db_connection gives
\* None, or the SELECT raises
CheckFaults == {"none", "no_connection", "select_raises"}

\* check_organisation_exists: the organisation row exists and it has at least
\* one activity and a statistics row; False when the connection cannot be
\* opened or the SELECT raises
check_organisation_exists(db, org, fault) ==
    /\ fault = "none"
    /\ \E o \in db.organisations : o.organisation_id = org
    /\ \E a \in db.activities : a.organisation_id = org
    /\ \E st \in db.statistics : st.organisation_id = org

\* process_organisation_data up to the call of save_scraped_data; an
\* exception raised on the way (a scraper, the rate limiter) is caught by
\* process_branch and becomes a result with success False
WCheck(t) ==
    /\ w_pc[t] = "check"
    /\ \E fault \in CheckFaults, raised \in BOOLEAN :
       IF check_organisation_exists(legacy, w_data[t].org, fault)
       THEN /\ ~raised
            /\ w_pc' = [w_pc EXCEPT ![t] = "done"]
            /\ w_result' = [w_result EXCEPT ![t] = "already exists"]
       ELSE
            IF ~raised
            THEN /\ w_pc' = [w_pc EXCEPT ![t] = "org"]
                 /\ UNCHANGED w_result
            ELSE /\ w_pc' = [w_pc EXCEPT ![t] = "done"]
                 /\ w_result' = [w_result EXCEPT ![t] = "exception"]
    /\ UNCHANGED <<w_data, w_i, w_last, legacy>>
    /\ UNCHANGED <<activities, up_recs, up_hist>>
    /\ UNCHANGED <<cpVars, runVars, fetch, parse, ex, lg, pg, gate, stats,
                   loc, pace, dp, batch, res>>

\* the message save_scraped_data returns when it ends before the
\* organisation row is written
SaveFailure(outcome) ==
    IF outcome = "no_connection"
    THEN "Failed to establish database connection"
    ELSE IF outcome = "no_tables" THEN "Failed to create database tables"
    ELSE "Failed to insert organisation data"

SaveOutcomes == {"ok", "no_connection", "no_tables", "insert_failed"}

\* save_scraped_data: get_db_connection (None when connect raises),
\* create_tables_if_not_exist and insert_organisation_data (commit, or
\* rollback and return False); each failure returns its own message
WOrg(t) ==
    /\ w_pc[t] = "org"
    /\ \E outcome \in SaveOutcomes :
        LET row == OrgRow(t, w_data[t].org)
            ok == outcome = "ok" IN
        IF ok
        THEN /\ legacy' = [legacy EXCEPT !.organisations =
                               insert_organisation_data(legacy.organisations, row)]
             /\ w_last' = [w_last EXCEPT ![<<"organisations", row.organisation_id>>] = {row}]
             /\ w_pc' = [w_pc EXCEPT ![t] = "stats"]
             /\ UNCHANGED w_result
        ELSE /\ w_pc' = [w_pc EXCEPT ![t] = "done"]
             /\ w_result' = [w_result EXCEPT ![t] = SaveFailure(outcome)]
             /\ UNCHANGED <<legacy, w_last>>
    /\ UNCHANGED <<w_data, w_i>>
    /\ UNCHANGED <<activities, up_recs, up_hist>>
    /\ UNCHANGED <<cpVars, runVars, fetch, parse, ex, lg, pg, gate, stats,
                   loc, pace, dp, batch, res>>

\* save_scraped_data: insert_statistics_data
WStats(t) ==
    /\ w_pc[t] = "stats"
    /\ \E ok \in BOOLEAN :
        LET row == StatRow(t, w_data[t].org) IN
        IF ok
        THEN /\ legacy' = [legacy EXCEPT !.statistics =
                               insert_statistics_data(legacy.statistics, row)]
             /\ w_last' = [w_last EXCEPT ![<<"statistics", row.organisation_id>>] = {row}]
             /\ w_pc' = [w_pc EXCEPT ![t] = "acts"]
             /\ UNCHANGED w_result
        ELSE /\ w_pc' = [w_pc EXCEPT ![t] = "done"]
             /\ w_result' = [w_result EXCEPT ![t] = "Failed to insert statistics data"]
             /\ UNCHANGED <<legacy, w_last>>
    /\ UNCHANGED <<w_data, w_i>>
    /\ UNCHANGED <<activities, up_recs, up_hist>>
    /\ UNCHANGED <<cpVars, runVars, fetch, parse, ex, lg, pg, gate, stats,
                   loc, pace, dp, batch, res>>

\* insert_activities_batch: one insert_activity_data per activity; a failed
\* one is rolled back and counted, the loop goes on
WActivity(t) ==
    /\ w_pc[t] = "acts" /\ w_i[t] <= Len(w_data[t].acts)
    /\ \E ok \in BOOLEAN :
        LET row == ActRow(t, w_data[t].org, w_data[t].acts[w_i[t]]) IN
        IF ok
        THEN /\ legacy' = [legacy EXCEPT !.activities =
                               insert_activity_data(legacy.activities, row)]
             /\ w_last' = [w_last EXCEPT ![<<"activities", row.activity_id>>] = {row}]
        ELSE UNCHANGED <<legacy, w_last>>
    /\ w_i' = [w_i EXCEPT ![t] = @ + 1]
    /\ UNCHANGED <<w_pc, w_data, w_result>>
    /\ UNCHANGED <<activities, up_recs, up_hist>>
    /\ UNCHANGED <<cpVars, runVars, fetch, parse, ex, lg, pg, gate, stats,
                   loc, pace, dp, batch, res>>

\* save_scraped_data returns {'success': True, ...}
WReturn(t) ==
    /\ w_pc[t] = "acts" /\ w_i[t] > Len(w_data[t].acts)
    /\ w_pc' = [w_pc EXCEPT ![t] = "done"]
    /\ w_result' = [w_result EXCEPT ![t] = "success"]
    /\ UNCHANGED <<w_data, w_i, w_last>>
    /\ UNCHANGED <<dbVars, cpVars, runVars, fetch, parse, ex, lg, pg, gate,
                   stats, loc, pace, dp, batch, res>>

\* the result dictionary of a finished branch has success True for a saved
\* branch and also for a skipped one ("already exists")
ResultSuccess(result) == result \in {"success", "already exists"}

BatchIdle == [pc |-> "idle"]

BatchInit ==
    batch = [pc |-> "collecting", collected |-> {}, total |-> Cardinality(Threads),
             successful |-> 0, failed |-> 0, skipped |-> 0]

\* for i, future in enumerate(as_completed(future_to_branch)): the next
\* finished branch, in completion order, is counted
BatchCollect(t) ==
    /\ batch.pc = "collecting" /\ w_pc[t] = "done" /\ t \notin batch.collected
    /\ batch' = IF ResultSuccess(w_result[t])
                THEN [batch EXCEPT !.collected = @ \cup {t},
                                   !.successful = @ + 1]
                ELSE IF w_result[t] = "already exists"
                THEN [batch EXCEPT !.collected = @ \cup {t},
                                   !.skipped = @ + 1]
                ELSE [batch EXCEPT !.collected = @ \cup {t},
                                   !.failed = @ + 1]
    /\ UNCHANGED <<cpVars, runVars, dbVars, wVars, fetch, parse, ex, lg, pg,
                   gate, stats, loc, pace, dp, res>>

\* return {"total": ..., "successful": ..., "failed": ..., "skipped": ...}
BatchReturn ==
    /\ batch.pc = "collecting" /\ batch.collected = Threads
    /\ batch' = [batch EXCEPT !.pc = "returned"]
    /\ UNCHANGED <<cpVars, runVars, dbVars, wVars, fetch, parse, ex, lg, pg,
                   gate, stats, loc, pace, dp, res>>

NextWorkers == \/ \E t \in Threads :
                    WCheck(t) \/ WOrg(t) \/ WStats(t) \/ WActivity(t) \/ WReturn(t)
               \/ \E t \in Threads : BatchCollect(t)
               \/ BatchReturn

\* ------------------------------------------------------- the fetch path
\* settings.MAX_RETRIES
MAX_RETRIES == 3
\* get_page_content calls get_with_retry(url, max_retries=1)
GWR_MAX_RETRIES == 1

\* What one HTTP request can meet: a status (403cf is 403 with the
\* Cloudflare marker in the body, 500 any other status with an HTML body),
\* an aiohttp.ClientError or an asyncio.TimeoutError.
Responses == {"200", "404", "429", "403cf", "500", "ClientError", "Timeout"}

\* 2 ** n
Pow2(n) == 2 ^ n

\* get_page_content(url) has been called and is about to send its first
\* request: attempt 0 of its loop, retry_count 0 of get_with_retry, retry_count
\* 0 of get.  requests, wait, prev_wait, only_net, blocked_at and status
\* record what the call did: requests sent, the backoff slept before the next
\* request and before the previous one, whether every failure so far was a
\* network or timeout error, the request that met the first blocking
\* response, and what the last request met.
FetchCall == [pc |-> "get", attempt |-> 0, retry_count |-> 0, get_retry |-> 0,
              requests |-> 0, wait |-> 0, prev_wait |-> 0, only_net |-> TRUE,
              blocked_at |-> 0, status |-> "none", result |-> "none",
              error |-> "none"]

FetchIdle == [FetchCall EXCEPT !.pc = "idle"]

\* BaseScraper.get_page_content, except Exception: back off 2 ** attempt and
\* try again while attempt < max_retries, else raise ScrapingError
GpcExcept(f, err) ==
    IF f.attempt < MAX_RETRIES
    THEN [f EXCEPT !.attempt = @ + 1, !.retry_count = 0, !.get_retry = 0,
                   !.wait = Pow2(f.attempt), !.error = err]
    ELSE [f EXCEPT !.pc = "done", !.result = "ScrapingError", !.error = err]

\* ESNHTTPClient.get_with_retry, except (NetworkError, TimeoutError):
\* retry_count += 1; re-raise when retry_count > max_retries, else sleep
\* 2 ** retry_count and call get again
GwrExceptNetwork(f, err) ==
    IF f.retry_count + 1 > GWR_MAX_RETRIES
    THEN GpcExcept(f, err)
    ELSE [f EXCEPT !.retry_count = @ + 1, !.get_retry = 0,
                   !.wait = Pow2(f.retry_count + 1), !.error = err]

\* ESNHTTPClient.get_with_retry, except (RateLimitError, CloudflareError):
\* re-raise; the caller is get_page_content
GwrExceptBlocked(f, err) == GpcExcept(f, err)

\* ESNHTTPClient.get, except aiohttp.ClientError: sleep 2 ** retry_count and
\* call get(retry_count + 1) while retry_count < max_retries, else raise
\* NetworkError
GetExceptClientError(f) ==
    IF f.get_retry < MAX_RETRIES
    THEN [f EXCEPT !.get_retry = @ + 1, !.wait = Pow2(f.get_retry),
                   !.error = "ClientError"]
    ELSE GwrExceptNetwork(f, "NetworkError")

\* ESNHTTPClient.get, except asyncio.TimeoutError: raise TimeoutError
GetExceptTimeout(f) == GwrExceptNetwork(f, "TimeoutError")

\* the request is sent, session.get(url), and meets resp
Sent(f, resp) == [f EXCEPT !.requests = @ + 1, !.prev_wait = f.wait,
                           !.wait = 0, !.status = resp]

\* The response passes _check_response; get_with_retry returns its text, ""
\* for 404, and get_page_content returns that.
Returned(f, resp) ==
    [f EXCEPT !.pc = "done",
              !.result = IF resp = "200" THEN "page"
                         ELSE IF resp = "404" THEN "" ELSE "errorpage"]

\* _check_response raises RateLimitError (429) or CloudflareError (403 with
\* the marker in the body)
Blocked(f, resp) ==
    LET g == [f EXCEPT !.only_net = FALSE,
                       !.blocked_at = IF @ = 0 THEN f.requests ELSE @]
    IN GwrExceptBlocked(g, IF resp = "429" THEN "RateLimitError"
                                           ELSE "CloudflareError")

\* one request of the fetch path and everything the three layers do with what
\* it meets, up to the next request or the end of the call
Respond(f, resp) ==
    LET g == Sent(f, resp)
    IN IF resp \in {"200", "404", "500"} THEN Returned(g, resp)
       ELSE IF resp \in {"429", "403cf"} THEN Blocked(g, resp)
       ELSE IF resp = "ClientError" THEN GetExceptClientError(g)
       ELSE GetExceptTimeout(g)

FetchReturn ==
    /\ fetch.pc = "get"
    /\ \E resp \in {"200", "404", "500"} : fetch' = Respond(fetch, resp)
    /\ UNCHANGED <<cpVars, runVars, dbVars, wVars, parse, ex, lg, pg, gate,
                   stats, loc, pace, dp, batch, res>>

FetchBlocked ==
    /\ fetch.pc = "get"
    /\ \E resp \in {"429", "403cf"} : fetch' = Respond(fetch, resp)
    /\ UNCHANGED <<cpVars, runVars, dbVars, wVars, parse, ex, lg, pg, gate,
                   stats, loc, pace, dp, batch, res>>

FetchClientError ==
    /\ fetch.pc = "get"
    /\ fetch' = Respond(fetch, "ClientError")
    /\ UNCHANGED <<cpVars, runVars, dbVars, wVars, parse, ex, lg, pg, gate,
                   stats, loc, pace, dp, batch, res>>

FetchTimeout ==
    /\ fetch.pc = "get"
    /\ fetch' = Respond(fetch, "Timeout")
    /\ UNCHANGED <<cpVars, runVars, dbVars, wVars, parse, ex, lg, pg, gate,
                   stats, loc, pace, dp, batch, res>>

NextFetch == FetchReturn \/ FetchBlocked \/ FetchClientError \/ FetchTimeout

\* get_page_content(url) run to its end against a server that answers the
\* i-th request with resps[i] and every later request with the last of resps
RECURSIVE RunFetch(_, _, _)
RunFetch(f, resps, i) ==
    IF f.pc = "done" THEN f
    ELSE RunFetch(Respond(f, resps[Min(i, Len(resps))]), resps, i + 1)

get_page_content(resps) == RunFetch(FetchCall, resps, 1)

\* ------------------------------------------------------ detail extraction
\* date.today(), and the dates a page can carry, as day numbers
Today == 5
PageDates == {3, 7}
\* a date element whose text matches none of parse_date_safely's formats
Unparseable == -1
\* no date: parse_date_safely's None
NoDate == 0

DateTexts == PageDates \cup {Unparseable}

\* Texts of the participants element ("absent" when no selector matches).
ParticipantTexts == {"absent", "25", "-5", "20000", "many"}

\* A detail page or listing container as the parsers see it: the text of its
\* title element ("absent" when no selector matches), of its description
\* element, of its date elements in document order and of its participants
\* element.
Docs == [title : {"Boat Party", "", "absent"},
         description : {"A boat party on the river", "short", "absent"},
         dates : {<<>>} \cup {<<a>> : a \in DateTexts}
                        \cup {<<a, b>> : a \in DateTexts, b \in DateTexts},
         participants : ParticipantTexts]

\* int(re.sub(r'[^\d]', '', participants_text)), 0 on ValueError and when
\* there is no participants element: the sign is dropped with every other
\* non-digit
parse_participants(text) ==
    IF text = "25" THEN 25
    ELSE IF text = "-5" THEN 5
    ELSE IF text = "20000" THEN 20000
    ELSE 0

\* parse_date_safely(date_str)['start_date']
parse_date_safely(text) == IF text \in PageDates THEN text ELSE NoDate

\* ActivityModel(**data): min_length=1 on title and description, the
\* description validator's 10 characters, end_date >= start_date,
\* 0 <= participants <= 10000;
\* is_valid is not passed and takes its default, True
ActivityModelAcceptsAnyEndDate(title, description, start_date, end_date, participants) ==
    /\ title # ""
    /\ description \notin {"", "short"}
    /\ participants >= 0 /\ participants <= 10000

ActivityModelAccepts(title, description, start_date, end_date, participants) ==
    /\ title # ""
    /\ description \notin {"", "short"}
    /\ end_date = NoDate \/ end_date >= start_date
    /\ participants >= 0 /\ participants <= 10000

\* parse_activity_details(soup, url, event_slug): <<record>>, or <<>> for None
parse_activity_details(doc, event_slug) ==
    LET title == IF doc.title = "absent" THEN "Unknown Activity" ELSE doc.title
        description == IF doc.description = "absent"
                       THEN "No description available" ELSE doc.description
        start0 == IF Len(doc.dates) >= 1 THEN parse_date_safely(doc.dates[1])
                  ELSE NoDate
        end1 == IF Len(doc.dates) >= 2 THEN parse_date_safely(doc.dates[2])
                ELSE NoDate
        end0 == IF end1 # NoDate THEN end1 ELSE start0
        start_date == IF start0 = NoDate THEN Today ELSE start0
        end_date == IF start0 = NoDate THEN Today ELSE end0
        participants == parse_participants(doc.participants)
    IN IF ActivityModelAccepts(title, description, start_date, end_date,
                               participants)
       THEN << [event_slug |-> event_slug, title |-> title,
                start_date |-> start_date, end_date |-> end_date,
                participants |-> participants,
                is_future_event |-> start_date > Today, is_valid |-> TRUE] >>
       ELSE <<>>

\* ActivitiesAndStatisticsScraper.parse_activity_container(container): None
\* when a required field is missing; otherwise "return activity" names a
\* variable that is never assigned, the NameError is caught and the result
\* is None as well
parse_activity_container(doc) ==
    LET title == IF doc.title = "absent" THEN "" ELSE doc.title
        description == IF doc.description = "absent" THEN "" ELSE doc.description
        start_date == IF Len(doc.dates) >= 1 THEN parse_date_safely(doc.dates[1])
                      ELSE NoDate
    IN IF title = "" \/ description = "" \/ start_date = NoDate
       THEN <<>>
       ELSE <<>>

Parsers == {"parse_activity_details", "parse_activity_container"}

ParseIdle == [pc |-> "idle", parser |-> "none", doc |-> <<>>, out |-> <<>>]

ParseInit ==
    parse \in [pc : {"call"}, parser : Parsers, doc : Docs, out : {<<>>}]

ParseActivityDetails ==
    /\ parse.pc = "call"
    /\ parse.parser = "parse_activity_details"
    /\ parse' = [parse EXCEPT !.pc = "done",
                    !.out = parse_activity_details(parse.doc, "boat-party-1")]
    /\ UNCHANGED <<cpVars, runVars, dbVars, wVars, fetch, ex, lg, pg, gate,
                   stats, loc, pace, dp, batch, res>>

ParseActivityContainer ==
    /\ parse.pc = "call"
    /\ parse.parser = "parse_activity_container"
    /\ parse' = [parse EXCEPT !.pc = "done",
                    !.out = parse_activity_container(parse.doc)]
    /\ UNCHANGED <<cpVars, runVars, dbVars, wVars, fetch, ex, lg, pg, gate,
                   stats, loc, pace, dp, batch, res>>

NextParse == ParseActivityDetails \/ ParseActivityContainer

\* ------------------------------------------- extraction of one section
\* the last listing page of the section's site, 0-indexed
MaxSitePage == 2
\* settings.PAGINATION_CHUNK_SIZE is read from the environment
MaxPaginationChunk == 3

\* How the server treats the requests for one URL: the i-th request meets
\* the i-th element and every later one the last.
Behaviours == {<<"200">>, <<"404">>, <<"500">>, <<"429">>, <<"ClientError">>,
               <<"Timeout", "404">>, <<"ClientError", "200">>}
DetailBehaviours == {<<"200">>, <<"ClientError">>}

\* the articles of one listing page, in document order
PageEntries == <<"a", "b">>

\* the detail pages of the site: with a start date and without
SiteDocs ==
    {[title |-> "Boat Party", description |-> "A boat party on the river",
      dates |-> d, participants |-> "25"] : d \in {<<3>>, <<>>}}

\* BaseScraper.parse_html(content, url): ValueError, wrapped in ScrapingError,
\* when the content has no <html> element, as the empty content has
parse_html_raises(content) == content = ""

\* what get_page_content and parse_html make of one URL: the last status met
\* and the content, or "ScrapingError" for a raise of either
Fetched(resps) ==
    LET f == get_page_content(resps)
    IN [status |-> f.status,
        result |-> f.result,
        raised |-> f.result = "ScrapingError" \/ parse_html_raises(f.result)]

ListingFetches == {Fetched(b) : b \in Behaviours}

\* extract_activities_from_page, the body of its loop for one article: the
\* detail page is fetched and parsed; any exception skips the article
EntryActivities(event_slug, resps, doc) ==
    IF Fetched(resps).raised THEN <<>>
    ELSE parse_activity_details(doc, event_slug)

EntryOutcomes(event_slug) ==
    {EntryActivities(event_slug, b, doc) : b \in DetailBehaviours, doc \in SiteDocs}

\* extract_activities_from_page(http_client, soup, base_url): every list of
\* records the page's articles can yield
PageActivities(page) ==
    {a \o b : a \in EntryOutcomes(<<page, PageEntries[1]>>),
              b \in EntryOutcomes(<<page, PageEntries[2]>>)}

ExIdle == [pc |-> "idle"]

\* extract_activities_for_section (path "extractor") or
\* ActivitiesAndStatisticsScraper.process_section (path "scraper") has been
\* called for a section whose site has pages 0..site_last; nothing is fetched
\* yet.  log holds one report per
\* chunk that has returned, pages one entry per listing page requested in the
\* running chunk, errors counts the errors reported to the caller.
ExInit ==
    \E site_last \in 0..MaxSitePage, chunk_size \in 1..MaxPaginationChunk,
       path \in {"extractor", "scraper"} :
        ex = [path |-> path, pc |-> IF path = "extractor" THEN "first" ELSE "total",
              site_last |-> site_last, chunk_size |-> chunk_size,
              chunks |-> <<>>, ci |-> 0, page_num |-> 0, pending |-> {},
              chunk_activities |-> <<>>, all_activities |-> <<>>,
              pages |-> <<>>, log |-> <<>>, errors |-> 0, result |-> <<>>]

\* extract_activities_for_section, step 1 and 2: the first page is fetched for
\* its pagination and the chunks are planned; an exception returns []
ExtractFirstPage ==
    /\ ex.pc = "first"
    /\ \E f \in ListingFetches :
        IF f.raised
        THEN ex' = [ex EXCEPT !.pc = "done", !.result = <<>>]
        ELSE LET last_page == IF f.result = "page" THEN ex.site_last ELSE 0
                 chunks == create_chunks(last_page, ex.chunk_size)
             IN ex' = [ex EXCEPT !.pc = "page", !.chunks = chunks, !.ci = 1,
                                 !.page_num = chunks[1][1]]
    /\ UNCHANGED <<cpVars, runVars, dbVars, wVars, fetch, parse, lg, pg,
                   gate, stats, loc, pace, dp, batch, res>>

\* extract_activities_chunk returns records to the loop of
\* extract_activities_for_section, which extends all_activities and goes on
\* with the next chunk, or returns after the last
ChunkReturned(e, records, pages, stop) ==
    LET all == e.all_activities \o records
        report == [chunk |-> e.chunks[e.ci], pages |-> pages, stop |-> stop,
                   returned |-> records]
        logged == [e EXCEPT !.all_activities = all, !.log = Append(@, report),
                            !.chunk_activities = <<>>, !.pages = <<>>]
    IN IF e.ci = Len(e.chunks)
       THEN [logged EXCEPT !.pc = "done", !.result = all]
       ELSE [logged EXCEPT !.ci = @ + 1, !.page_num = e.chunks[e.ci + 1][1]]

\* a chunk that discards its records when a page fails
chunk_on_exception_discards(chunk_activities) == <<>>

\* extract_activities_chunk, except Exception: the error is logged and the
\* records of the pages before it are returned
chunk_on_exception(chunk_activities) == chunk_activities

PageReport(page_num, f, records) ==
    [page |-> page_num, status |-> f.status, result |-> f.result,
     raised |-> f.raised, records |-> records]

\* extract_activities_chunk, one turn of its page loop that raises nothing
ExtractPage ==
    /\ ex.pc = "page"
    /\ \E f \in ListingFetches :
        /\ ~ f.raised
        /\ \E page_activities \in
                 IF f.result = "page" THEN PageActivities(ex.page_num) ELSE {<<>>} :
            LET acts == ex.chunk_activities \o page_activities
                pages == Append(ex.pages, PageReport(ex.page_num, f, page_activities))
            IN IF ex.page_num = ex.chunks[ex.ci][2]
               THEN ex' = ChunkReturned(ex, acts, pages, "end")
               ELSE ex' = [ex EXCEPT !.page_num = @ + 1,
                                     !.chunk_activities = acts, !.pages = pages]
    /\ UNCHANGED <<cpVars, runVars, dbVars, wVars, fetch, parse, lg, pg,
                   gate, stats, loc, pace, dp, batch, res>>

\* extract_activities_chunk, a turn of its page loop in which the fetch or
\* parse_html raises: the loop is left through the except clause
ExtractPageFailed ==
    /\ ex.pc = "page"
    /\ \E f \in ListingFetches :
        /\ f.raised
        /\ ex' = ChunkReturned(ex, chunk_on_exception(ex.chunk_activities),
                               Append(ex.pages, PageReport(ex.page_num, f, <<>>)),
                               IF f.status = "404" THEN "404" ELSE "error")
    /\ UNCHANGED <<cpVars, runVars, dbVars, wVars, fetch, parse, lg, pg,
                   gate, stats, loc, pace, dp, batch, res>>

\* extract_section_activities: page_chunks
\* page_chunks with total_pages taken for the last page number
page_chunks_through_total(total_pages, chunk_size) ==
    LET r == PyRange(0, total_pages + 1, chunk_size)
    IN [k \in 1..Len(r) |->
          PyRange(r[k], Min(r[k] + chunk_size, total_pages + 1), 1)]

page_chunks(total_pages, chunk_size) ==
    LET r == PyRange(0, total_pages, chunk_size)
    IN [k \in 1..Len(r) |-> PyRange(r[k], Min(r[k] + chunk_size, total_pages), 1)]

SeqToSet(q) == {q[k] : k \in 1..Len(q)}

\* the containers of one listing page go through parse_activity_container
ContainerActivities == parse_activity_container(CHOOSE doc \in SiteDocs : TRUE)

\* process_section -> extract_section_activities: get_total_pages (1 when the
\* first page cannot be fetched or has no pagination), then the page chunks
GetTotalPages ==
    /\ ex.pc = "total"
    /\ \E f \in ListingFetches :
        LET total_pages == IF ~ f.raised /\ f.result = "page"
                           THEN ex.site_last + 1 ELSE 1
            chunks == page_chunks(total_pages, ex.chunk_size)
        IN ex' = [ex EXCEPT !.pc = "task", !.chunks = chunks, !.ci = 1,
                            !.pending = SeqToSet(chunks[1])]
    /\ UNCHANGED <<cpVars, runVars, dbVars, wVars, fetch, parse, lg, pg,
                   gate, stats, loc, pace, dp, batch, res>>

\* process_activity_pages_chunk gathers one task per page of the chunk;
\* this is one of them, ActivitiesAndStatisticsScraper.extract_activities_from_page:
\* an exception of the fetch is logged and the page yields []
PageTask ==
    /\ ex.pc = "task"
    /\ \E page_num \in ex.pending, f \in ListingFetches :
        LET page_acts == IF f.raised \/ f.result # "page" THEN <<>>
                         ELSE ContainerActivities \o ContainerActivities
        IN ex' = [ex EXCEPT !.pending = @ \ {page_num},
                     !.chunk_activities = @ \o page_acts,
                     !.pages = Append(@, PageReport(page_num, f, page_acts))]
    /\ UNCHANGED <<cpVars, runVars, dbVars, wVars, fetch, parse, lg, pg,
                   gate, stats, loc, pace, dp, batch, res>>

\* asyncio.gather has every page's result; extract_section_activities extends
\* all_activities and goes on with the next chunk; after the last it ends
\* without a return statement, process_section swallows nothing because
\* nothing was raised, and the run's errors list is as it was
GatherChunk ==
    /\ ex.pc = "task"
    /\ ex.pending = {}
    /\ LET failed == \E k \in 1..Len(ex.pages) : ex.pages[k].raised
           report == [chunk |-> ex.chunks[ex.ci], pages |-> ex.pages,
                      stop |-> IF failed THEN "error" ELSE "end",
                      returned |-> ex.chunk_activities]
           logged == [ex EXCEPT !.all_activities = @ \o ex.chunk_activities,
                                !.log = Append(@, report),
                                !.chunk_activities = <<>>, !.pages = <<>>]
       IN IF ex.ci = Len(ex.chunks)
          THEN ex' = [logged EXCEPT !.pc = "done", !.result = <<>>]
          ELSE ex' = [logged EXCEPT !.ci = @ + 1,
                                    !.pending = SeqToSet(ex.chunks[ex.ci + 1])]
    /\ UNCHANGED <<cpVars, runVars, dbVars, wVars, fetch, parse, lg, pg,
                   gate, stats, loc, pace, dp, batch, res>>

NextExtract ==
    \/ ExtractFirstPage \/ ExtractPage \/ ExtractPageFailed
    \/ GetTotalPages \/ PageTask \/ GatherChunk

\* ------------------------- the ActivitiesScraper of src/scraping and its store
\* RequestHandler(retry_attempts=3)
RETRY_ATTEMPTS == 3

\* how the server treats the requests for one URL of the requests session:
\* a status, or a requests.RequestException
LgBehaviours == {<<"200">>, <<"404">>, <<"ConnectionError">>,
                 <<"500", "200">>}

\* RequestHandler.make_request(url, params): the text of the first response
\* that passes raise_for_status, "None" after retry_attempts failures
RECURSIVE make_request_from(_, _)
make_request_from(attempt, resps) ==
    LET resp == resps[Min(attempt + 1, Len(resps))]
    IN IF resp = "200" THEN [html |-> "page", requests |-> attempt + 1]
       ELSE IF attempt = RETRY_ATTEMPTS - 1
            THEN [html |-> "None", requests |-> attempt + 1]
            ELSE make_request_from(attempt + 1, resps)

make_request(resps) == make_request_from(0, resps)

\* ActivitiesScraper.scrape_activity(activity_id) for the event link of
\* article n of page p: the details, or the error entry when make_request
\* gives None
scrape_activity(page, n, resps) ==
    IF make_request(resps).html = "None"
    THEN [activity_id |-> <<"/activity", page, n>>,
          error |-> "Failed to retrieve activity data", activity_title |-> ""]
    ELSE [activity_id |-> <<"activity", page, n>>,
          error |-> "none", activity_title |-> "Boat Party"]

\* the event links of one listing page and what scrape_activity makes of them
LgPageActivities(page, event_links) ==
    {[k \in 1..Len(event_links) |->
         scrape_activity(page, event_links[k], bs[k])] :
        bs \in [1..Len(event_links) -> LgBehaviours]}

\* the articles of a listing page as get_events_page meets them: "event"
\* for an article with a title link and an activity link with href;
\* "passed_over" for one without title link or without activity link
\* (AttributeError or TypeError, caught: continue); "no_href" for one whose
\* activity link is an <a> without href (KeyError, which is not caught)
ArticleShapes == [1..Len(PageEntries) -> {"event", "passed_over", "no_href"}]

\* get_events_page(organisation_id, page): no events when make_request gives
\* None; the KeyError of the first article without href leaves the function;
\* otherwise the links of the "event" articles in document order
get_events_page(html, shape) ==
    IF html = "None" THEN [raised |-> FALSE, events |-> << >>]
    ELSE IF \E k \in 1..Len(PageEntries) : shape[k] = "no_href"
    THEN [raised |-> TRUE, events |-> << >>]
    ELSE LET Ok(k) == shape[k] = "event"
             idx == SelectSeq([k \in 1..Len(PageEntries) |-> k], Ok)
         IN [raised |-> FALSE,
             events |-> [j \in 1..Len(idx) |-> PageEntries[idx[j]]]]

\* activity_data['organisation_id'] = organisation_id
TagOrganisation(activity_data, organisation_id) ==
    [activity_id |-> activity_data.activity_id,
     error |-> activity_data.error,
     activity_title |-> activity_data.activity_title,
     organisation_id |-> organisation_id]

LgIdle == [pc |-> "idle"]

\* get_all_organisation_activities(organisation_id, max_pages) has been
\* called for an organisation whose listing has pages 0..site_last;
\* max_pages = 0 stands for None
LgInit ==
    \E site_last \in 0..MaxSitePage, max_pages \in 0..MaxSitePage :
        lg = [pc |-> "page", site_last |-> site_last, max_pages |-> max_pages,
              page |-> 0, all_activities |-> <<>>, failed_links |-> {},
              organisation_id |-> "esn-lille", requested |-> <<>>,
              served |-> <<>>,
              i |-> 0, stored |-> {}, successful |-> 0, failed |-> 0,
              write_failed |-> {}]

\* one turn of the while loop of get_all_organisation_activities:
\* get_events_page, break on no events, scrape_activity for every event.
\* The loop has no handler: a KeyError of get_events_page leaves
\* get_all_organisation_activities, which then returns nothing.
GetEventsPage ==
    /\ lg.pc = "page"
    /\ \E b \in LgBehaviours,
          \* a page after the last one of the listing has no article
          shape \in IF lg.page <= lg.site_last THEN ArticleShapes
                    ELSE {[k \in 1..Len(PageEntries) |-> "passed_over"]} :
        LET html == make_request(b).html
            got == get_events_page(html, shape)
            event_links == got.events
        IN IF got.raised
           THEN lg' = [lg EXCEPT !.pc = "raised",
                                 !.requested = Append(@, lg.page),
                                 !.served = Append(@, [html |-> html,
                                                       shape |-> shape])]
           ELSE IF event_links = << >>
           THEN lg' = [lg EXCEPT !.pc = "save",
                                 !.requested = Append(@, lg.page),
                                 !.served = Append(@, [html |-> html,
                                                       shape |-> shape])]
           ELSE \E acts \in LgPageActivities(lg.page, event_links) :
                lg' = [lg EXCEPT
                    !.requested = Append(@, lg.page),
                    !.served = Append(@, [html |-> html, shape |-> shape]),
                    !.all_activities = @ \o
                        [k \in 1..Len(acts) |->
                            TagOrganisation(acts[k], lg.organisation_id)],
                    !.failed_links = @ \cup
                        {<<lg.page, event_links[k]>> :
                            k \in {j \in 1..Len(acts) :
                                      acts[j].error # "none"}},
                    !.page = @ + 1,
                    !.pc = IF lg.max_pages # 0 /\ lg.page + 1 >= lg.max_pages
                           THEN "save" ELSE "page"]
    /\ UNCHANGED <<cpVars, runVars, dbVars, wVars, fetch, parse, ex, pg,
                   gate, stats, loc, pace, dp, batch, res>>

\* insert_activities_batch, one turn of its loop: insert_activity_data
\* commits, or its statement raises and it rolls back and returns False
InsertBatchActivity ==
    /\ lg.pc = "save"
    /\ lg.i < Len(lg.all_activities)
    /\ \E ok \in BOOLEAN :
        LET a == lg.all_activities[lg.i + 1]
        IN IF ok
           THEN lg' = [lg EXCEPT !.i = @ + 1, !.successful = @ + 1,
                          !.stored = insert_activity_data(@, a)]
           ELSE lg' = [lg EXCEPT !.i = @ + 1, !.failed = @ + 1,
                          !.write_failed = @ \cup {lg.i + 1}]
    /\ UNCHANGED <<cpVars, runVars, dbVars, wVars, fetch, parse, ex, pg,
                   gate, stats, loc, pace, dp, batch, res>>

\* insert_activities_batch returns its summary and save_scraped_data success
InsertBatchReturn ==
    /\ lg.pc = "save"
    /\ lg.i = Len(lg.all_activities)
    /\ lg' = [lg EXCEPT !.pc = "done"]
    /\ UNCHANGED <<cpVars, runVars, dbVars, wVars, fetch, parse, ex, pg,
                   gate, stats, loc, pace, dp, batch, res>>

NextLegacy == GetEventsPage \/ InsertBatchActivity \/ InsertBatchReturn

\* ------------------------------------------------------ pagination analysis
\* the largest page number a "last page" link carries
MaxLinkPage == 3

\* the text of one query parameter's value: a number, or not one
ParamValues == [num : {TRUE}, n : 0..MaxLinkPage] \cup {[num |-> FALSE, n |-> 0]}
Params == [key : {"page", "order"}, value : ParamValues]

\* The "last page" link of a first-page document: absent, an <a> without
\* href, or an href with its query parameters in order.
LastPageLinks ==
    {[kind |-> "absent", params |-> <<>>], [kind |-> "nohref", params |-> <<>>]}
    \cup {[kind |-> "href", params |-> q] :
            q \in {<<>>} \cup {<<a>> : a \in Params}
                         \cup {<<a, b>> : a \in Params, b \in Params}}

\* find_last_page_number(soup): int(href.split('=')[-1]) is the value of the
\* last parameter; KeyError and ValueError are caught and give 0
find_last_page_number(link) ==
    IF link.kind # "href" \/ link.params = <<>> THEN 0
    ELSE LET last == link.params[Len(link.params)].value
         IN IF last.num THEN last.n ELSE 0

\* the parameters of the link named page
PageParams(link) == {k \in 1..Len(link.params) : link.params[k].key = "page"}

\* get_total_pages: int(href.split('page=')[-1].split('&')[0]) + 1 is the
\* value of the last page parameter plus one; 1 without link, without
\* 'page=' in the href or on ValueError
get_total_pages(link) ==
    IF link.kind # "href" \/ PageParams(link) = {} THEN 1
    ELSE LET k == CHOOSE i \in PageParams(link) : \A j \in PageParams(link) : j <= i
             v == link.params[k].value
         IN IF v.num THEN v.n + 1 ELSE 1

PgIdle == [pc |-> "idle"]

PgInit ==
    pg \in [pc : {"call"}, fn : {"find_last_page_number", "get_total_pages"},
            link : LastPageLinks, out : {0}]

FindLastPageNumber ==
    /\ pg.pc = "call"
    /\ pg.fn = "find_last_page_number"
    /\ pg' = [pg EXCEPT !.pc = "done", !.out = find_last_page_number(pg.link)]
    /\ UNCHANGED <<cpVars, runVars, dbVars, wVars, fetch, parse, ex, lg,
                   gate, stats, loc, pace, dp, batch, res>>

GetTotalPagesOfLink ==
    /\ pg.pc = "call"
    /\ pg.fn = "get_total_pages"
    /\ pg' = [pg EXCEPT !.pc = "done", !.out = get_total_pages(pg.link)]
    /\ UNCHANGED <<cpVars, runVars, dbVars, wVars, fetch, parse, ex, lg,
                   gate, stats, loc, pace, dp, batch, res>>

NextPagination == FindLastPageNumber \/ GetTotalPagesOfLink

\* ---------------------------------------------------------- validation gate
\* validate_data: countries_processed < 40, sections_processed < 400
MIN_COUNTRIES == 40
MIN_SECTIONS == 400

\* Run reports of the entity crawl around the gate's thresholds; errors is
\* the length of the report's errors list.
Reports ==
    [countries_processed : {10, MIN_COUNTRIES - 1, MIN_COUNTRIES},
     sections_processed : {0, 10, MIN_SECTIONS - 1, MIN_SECTIONS, 1000},
     sections_validated : {0, 6, 279, 280, 699, 700, 1000},
     errors : {0, 3, 40, 41, 100, 101}]

\* a gate that does not look at the validation rate
validate_data_without_rate(data) ==
    IF data.countries_processed < MIN_COUNTRIES THEN FALSE
    ELSE IF data.sections_processed < MIN_SECTIONS THEN FALSE
    ELSE IF 10 * data.errors > data.sections_processed THEN FALSE
    ELSE TRUE

\* AccountsScraper.validate_data(data), and validate_scraping_data with the
\* same body: validated / processed < 0.7 is 10 * validated < 7 * processed,
\* error_count > processed * 0.1 is 10 * error_count > processed
validate_data(data) ==
    IF data.countries_processed < MIN_COUNTRIES THEN FALSE
    ELSE IF data.sections_processed < MIN_SECTIONS THEN FALSE
    ELSE IF data.sections_processed > 0
            /\ 10 * data.sections_validated < 7 * data.sections_processed
         THEN FALSE
    ELSE IF 10 * data.errors > data.sections_processed THEN FALSE
    ELSE TRUE

GateIdle == [pc |-> "idle"]

GateInit == gate \in [pc : {"call"}, data : Reports, out : {FALSE}]

ValidateData ==
    /\ gate.pc = "call"
    /\ gate' = [gate EXCEPT !.pc = "done", !.out = validate_data(gate.data)]
    /\ UNCHANGED <<cpVars, runVars, dbVars, wVars, fetch, parse, ex, lg,
                   pg, stats, loc, pace, dp, batch, res>>

NextGate == ValidateData

\* ------------------------------------------------------------ statistics
\* Most rows that a breakdown dimension of a statistics page carries.
MaxStatRows == 1

\* A statistics page as the scrapers see it: whether the request gave a
\* body, whether the body holds the drupal-settings-json script, and the
\* number of [name, count] items under the *_causes, *_types and
\* *_participants keys of activities_statistics.
StatDocs == [fetch : {"page", "failed"}, script : BOOLEAN,
             causes : 0..MaxStatRows, types : 0..MaxStatRows,
             participants : 0..MaxStatRows]

\* SectionStatisticsModel(...): the validators of causes, types and
\* participants raise ValueError on an empty list.
SectionStatisticsModelAccepts(causes, types, participants) ==
    causes # 0 /\ types # 0 /\ participants # 0

\* extract_section_statistics: any exception (failed fetch, script tag
\* missing, validation error) is logged and None (<< >>) is returned.
extract_section_statistics(doc) ==
    IF doc.fetch = "failed" \/ ~doc.script THEN << >>
    ELSE IF ~SectionStatisticsModelAccepts(doc.causes, doc.types,
                                           doc.participants) THEN << >>
    ELSE << [causes |-> doc.causes, types |-> doc.types,
             participants |-> doc.participants, error |-> "none"] >>

\* StatisticsScraper.scrape_statistics: an error dictionary when the request
\* or the script tag fails, otherwise the dictionaries built by
\* extract_statistic, extract_causes and extract_types, empty or not.
scrape_statistics(doc) ==
    IF doc.fetch = "failed"
    THEN << [causes |-> 0, types |-> 0, participants |-> 0,
             error |-> "Failed to retrieve statistics data"] >>
    ELSE IF ~doc.script
    THEN << [causes |-> 0, types |-> 0, participants |-> 0,
             error |-> "No JSON data found"] >>
    ELSE << [causes |-> doc.causes, types |-> doc.types,
             participants |-> doc.participants, error |-> "none"] >>

\* the statistics row written by database_utils.insert_statistics_data:
\* every column is read with .get(key, default), so a missing or empty
\* dimension is stored as zeros and '{}'
StatisticsRow(statistics_data) ==
    [organisation_id |-> "esn-lille",
     causes |-> statistics_data.causes,
     types |-> statistics_data.types,
     participants |-> statistics_data.participants]

StatsIdle == [pc |-> "idle"]

\* the dictionary returned by process_organisation_data
NoResult == [success |-> FALSE, message |-> "none"]


StatsInit ==
    stats \in [pc : {"call"}, path : {"extractor", "legacy"}, doc : StatDocs,
               out : {<< >>}, stored : {{}}, organisations : {{}},
               activities_list : {0}, activities : {0},
               result : {NoResult}]

\* extractors.extract_section_statistics(http_client, slug, base_url); its
\* only caller, process_section, has the call commented out, so nothing is
\* stored on this path
ExtractSectionStatistics ==
    /\ stats.pc = "call" /\ stats.path = "extractor"
    /\ stats' = [stats EXCEPT !.pc = "done",
                              !.out = extract_section_statistics(stats.doc)]
    /\ UNCHANGED <<cpVars, runVars, dbVars, wVars, fetch, parse, ex, lg, pg,
                   gate, loc, pace, dp, batch, res>>

\* process_organisation_data, step 2: statistics_data =
\* scrape_statistics(organisation_id); if not statistics_data: return
\* success False. An error dictionary is not empty, so it is not falsy.
ScrapeStatistics ==
    /\ stats.pc = "call" /\ stats.path = "legacy"
    /\ LET statistics_data == scrape_statistics(stats.doc)
       IN  stats' = IF statistics_data = << >>
                    THEN [stats EXCEPT
                            !.pc = "done",
                            !.result = [success |-> FALSE,
                                        message |->
                                          "Failed to scrape statistics"]]
                    ELSE [stats EXCEPT !.pc = "scraped",
                                       !.out = statistics_data]
    /\ UNCHANGED <<cpVars, runVars, dbVars, wVars, fetch, parse, ex, lg, pg,
                   gate, loc, pace, dp, batch, res>>

\* process_organisation_data, step 3, and the start of save_scraped_data:
\* the activities of the organisation are scraped, then get_db_connection,
\* create_tables_if_not_exist and insert_organisation_data, which commits
\* the organisation row; each failure ends the save with its own message
SaveOrganisationData ==
    /\ stats.pc = "scraped"
    /\ \E outcome \in SaveOutcomes, activities_list \in 0..1 :
         stats' = IF outcome = "ok"
                  THEN [stats EXCEPT
                          !.pc = "org_saved",
                          !.activities_list = activities_list,
                          !.organisations = @ \cup {"esn-lille"}]
                  ELSE [stats EXCEPT
                          !.pc = "done",
                          !.activities_list = activities_list,
                          !.result = [success |-> FALSE,
                                      message |-> SaveFailure(outcome)]]
    /\ UNCHANGED <<cpVars, runVars, dbVars, wVars, fetch, parse, ex, lg, pg,
                   gate, loc, pace, dp, batch, res>>

\* save_scraped_data: insert_statistics_data commits the statistics row, or
\* rolls back and the save ends with success False
SaveStatisticsData ==
    /\ stats.pc = "org_saved"
    /\ \E stats_result \in BOOLEAN :
         stats' = IF stats_result
                  THEN [stats EXCEPT
                          !.pc = "stats_saved",
                          !.stored = insert_statistics_data(
                                         @, StatisticsRow(stats.out[1]))]
                  ELSE [stats EXCEPT
                          !.pc = "done",
                          !.result = [success |-> FALSE,
                                      message |->
                                        "Failed to insert statistics data"]]
    /\ UNCHANGED <<cpVars, runVars, dbVars, wVars, fetch, parse, ex, lg, pg,
                   gate, loc, pace, dp, batch, res>>

\* save_scraped_data: insert_activities_batch counts an activity whose
\* insert fails and goes on, then success True whatever the counts
SaveActivitiesBatch ==
    /\ stats.pc = "stats_saved"
    /\ \E successful \in 0..stats.activities_list :
         stats' = [stats EXCEPT
                     !.pc = "done",
                     !.activities = successful,
                     !.result = [success |-> TRUE, message |-> "none"]]
    /\ UNCHANGED <<cpVars, runVars, dbVars, wVars, fetch, parse, ex, lg, pg,
                   gate, loc, pace, dp, batch, res>>

NextStats == ExtractSectionStatistics \/ ScrapeStatistics
                \/ SaveOrganisationData \/ SaveStatisticsData
                \/ SaveActivitiesBatch

\* ------------------------------------------------------------ locations
\* Most <span> elements in the location block of a detail document.
MaxSpans == 2

\* Texts a <span> of the location block can hold.
SpanTexts == {"Zoom", "Facebook / Zoom", " ", "Platform unknown",
              "Izmir", "Turkey"}

SpanSeqs == UNION {[1..n -> SpanTexts] : n \in 0..MaxSpans}

\* A detail document as location extraction sees it: whether it carries the
\* online marker (img src icon_portal_color.png), whether the block that
\* holds the location spans is there, and the spans in document order.
LocDocs == [online : BOOLEAN, block : BOOLEAN, spans : SpanSeqs]

\* clean_text = clean_html_text(text, preserve_special_chars=False):
\* whitespace runs become one space, then every character that is neither a
\* word character nor whitespace is removed, then strip()
clean_text(text) ==
    IF text = " " THEN ""
    ELSE IF text = "Facebook / Zoom" THEN "Facebook  Zoom"
    ELSE text

\* element.get_text(strip=True)
get_text_safely(text) == IF text = " " THEN "" ELSE text

\* any(x in value.lower() for x in ["not found", "unknown"])
IsPlaceholderText(value) ==
    value \in {"Platform unknown", "Location unknown", "Country unknown",
               "Unknown"}

\* ensure_value(value, default): None, a blank string, an empty collection
\* and a string containing "not found" or "unknown" give the default
ensure_value(value, default) ==
    IF value \in {"", " "} THEN default
    ELSE IF IsPlaceholderText(value) THEN default
    ELSE value

\* extraction_utils.extract_location(soup) -> (activity_city, activity_country)
extract_location(doc) ==
    LET found ==
          IF doc.online
          THEN IF ~doc.block THEN <<"Online", "Online">>
               ELSE << IF doc.spans # << >> THEN clean_text(doc.spans[1])
                       ELSE "Online",
                       "Online" >>
          ELSE IF ~doc.block THEN <<"Location unknown", "Country unknown">>
               ELSE << IF Len(doc.spans) > 0 THEN clean_text(doc.spans[1])
                       ELSE "Location unknown",
                       IF Len(doc.spans) > 1 THEN clean_text(doc.spans[2])
                       ELSE "Country unknown" >>
    IN << ensure_value(found[1], "Location unknown"),
          ensure_value(found[2], "Country unknown") >>

\* COUNTRY_MAPPING.get(country_name, 'XX'): the codes a name can map to
CountryCodeOf(country_name) ==
    IF country_name = "Turkey" THEN "TR" ELSE "XX"

\* parse_activity_details, location part: city = "Unknown", country_code =
\* "XX", overwritten from the elements of the first matching selector; the
\* online marker is not looked at
parse_location(doc) ==
    IF ~doc.block \/ doc.spans = << >> THEN <<"Unknown", "XX">>
    ELSE << IF get_text_safely(doc.spans[1]) = "" THEN "Unknown"
            ELSE get_text_safely(doc.spans[1]),
            IF Len(doc.spans) > 1
            THEN CountryCodeOf(get_text_safely(doc.spans[2]))
            ELSE "XX" >>

LocIdle == [pc |-> "idle"]

LocInit ==
    loc \in [pc : {"call"}, fn : {"extract_location", "parse_activity_details"},
             doc : LocDocs, city : {""}, country : {""}]

\* ActivitiesScraper.scrape_activity: activity_city, activity_country =
\* extract_location(soup)
ExtractLocation ==
    /\ loc.pc = "call" /\ loc.fn = "extract_location"
    /\ loc' = [loc EXCEPT !.pc = "done",
                          !.city = extract_location(loc.doc)[1],
                          !.country = extract_location(loc.doc)[2]]
    /\ UNCHANGED <<cpVars, runVars, dbVars, wVars, fetch, parse, ex, lg, pg,
                   gate, stats, pace, dp, batch, res>>

\* parse_activity_details(soup, event_slug, url): city and country_code
ParseLocation ==
    /\ loc.pc = "call" /\ loc.fn = "parse_activity_details"
    /\ loc' = [loc EXCEPT !.pc = "done",
                          !.city = parse_location(loc.doc)[1],
                          !.country = parse_location(loc.doc)[2]]
    /\ UNCHANGED <<cpVars, runVars, dbVars, wVars, fetch, parse, ex, lg, pg,
                   gate, stats, pace, dp, batch, res>>

NextLocation == ExtractLocation \/ ParseLocation

\* ------------------------------------------------------------ pacing
\* Largest configured pacing delay (SCRAPING_DELAY, ESNScraper(delay)), in
\* seconds.
MaxDelay == 2
\* The clock stops after MaxTime seconds.
MaxTime == 8
\* Most coroutines that await the same client at once (the pages of one
\* asyncio.gather in process_activity_pages_chunk).
MaxCoroutines == 2
\* Most calls of get / _get_page per coroutine.
MaxCalls == 2

PaceClients == {"ESNHTTPClient", "ESNScraper"}

\* _simulate_human_behavior: with probability 0.05 a further
\* asyncio.sleep(random.uniform(2, 5)); 0 stands for no further pause
ExtraPauses == {0, 2}

Coroutines == 1..MaxCoroutines

PaceTaskIdle == [pc |-> "idle", wake |-> 0, retry_count |-> 0, calls |-> 0]

PaceIdle == [client |-> "none"]

\* A client right after construction: no request sent, ESNScraper's
\* last_request_time = 0 while time.time() is far past any delay.
PaceInit ==
    \E client \in PaceClients, delay \in 1..MaxDelay, n \in Coroutines :
        /\ client = "ESNScraper" => n = 1
        /\ pace = [client |-> client, delay |-> delay, n |-> n,
                   now |-> MaxDelay, last_request_time |-> 0,
                   last_sent |-> -1, gap |-> -1, paced |-> TRUE,
                   task |-> [t \in Coroutines |-> PaceTaskIdle]]

\* what sending a request at pace.now does to the record of requests
RequestSent(p) ==
    [p EXCEPT !.last_sent = p.now,
              !.gap = IF p.last_sent = -1 THEN -1 ELSE p.now - p.last_sent,
              !.paced = p.paced /\ (p.last_sent = -1
                                     \/ p.now - p.last_sent >= p.delay)]

\* ESNHTTPClient.get, up to the request: _simulate_human_behavior sleeps
\* request_delay (and sometimes more) before session.get
HcGet(t) ==
    /\ pace.client = "ESNHTTPClient" /\ t <= pace.n
    /\ pace.task[t].pc = "idle" /\ pace.task[t].calls < MaxCalls
    /\ \E extra \in ExtraPauses :
         pace' = [pace EXCEPT !.task[t] =
                     [pc |-> "sleep", wake |-> pace.now + pace.delay + extra,
                      retry_count |-> 0, calls |-> pace.task[t].calls + 1]]
    /\ UNCHANGED <<cpVars, runVars, dbVars, wVars, fetch, parse, ex, lg, pg,
                   gate, stats, loc, dp, batch, res>>

\* ESNHTTPClient.get, the request and what follows: a response (or a
\* timeout) ends the call; aiohttp.ClientError with retry_count <
\* max_retries sleeps 2 ** retry_count and calls get again, which sleeps
\* request_delay before its request
HcSend(t) ==
    /\ pace.client = "ESNHTTPClient" /\ t <= pace.n
    /\ pace.task[t].pc = "sleep" /\ pace.now >= pace.task[t].wake
    /\ \E resp \in {"200", "ClientError", "TimeoutError"},
          extra \in ExtraPauses :
         LET sent == RequestSent(pace)
             rc == pace.task[t].retry_count IN
         IF resp = "ClientError" /\ rc < MAX_RETRIES
         THEN pace' = [sent EXCEPT
                         !.task[t].wake = pace.now + Pow2(rc) + pace.delay
                                             + extra,
                         !.task[t].retry_count = rc + 1]
         ELSE /\ extra = 0
              /\ pace' = [sent EXCEPT !.task[t].pc = "idle"]
    /\ UNCHANGED <<cpVars, runVars, dbVars, wVars, fetch, parse, ex, lg, pg,
                   gate, stats, loc, dp, batch, res>>

\* ESNScraper._get_page, up to the request: elapsed = time.time() -
\* last_request_time; if elapsed < delay: time.sleep(delay - elapsed)
GpCall ==
    /\ pace.client = "ESNScraper"
    /\ pace.task[1].pc = "idle" /\ pace.task[1].calls < MaxCalls
    /\ LET elapsed == pace.now - pace.last_request_time IN
       pace' = [pace EXCEPT !.task[1] =
                   [pc |-> "sleep",
                    wake |-> IF elapsed < pace.delay
                             THEN pace.now + (pace.delay - elapsed)
                             ELSE pace.now,
                    retry_count |-> 0, calls |-> pace.task[1].calls + 1]]
    /\ UNCHANGED <<cpVars, runVars, dbVars, wVars, fetch, parse, ex, lg, pg,
                   gate, stats, loc, dp, batch, res>>

\* ESNScraper._get_page, the request: a good response sets
\* last_request_time and returns; RequestException sleeps delay * 2
GpSend ==
    /\ pace.client = "ESNScraper"
    /\ pace.task[1].pc = "sleep" /\ pace.now >= pace.task[1].wake
    /\ \E resp \in {"200", "RequestException"} :
         LET sent == RequestSent(pace) IN
         IF resp = "200"
         THEN pace' = [sent EXCEPT !.last_request_time = pace.now,
                                   !.task[1].pc = "idle"]
         ELSE pace' = [sent EXCEPT !.task[1].pc = "backoff",
                                   !.task[1].wake = pace.now + 2 * pace.delay]
    /\ UNCHANGED <<cpVars, runVars, dbVars, wVars, fetch, parse, ex, lg, pg,
                   gate, stats, loc, dp, batch, res>>

\* ESNScraper._get_page: return "" after the sleep that follows an error
GpReturn ==
    /\ pace.client = "ESNScraper"
    /\ pace.task[1].pc = "backoff" /\ pace.now >= pace.task[1].wake
    /\ pace' = [pace EXCEPT !.task[1].pc = "idle"]
    /\ UNCHANGED <<cpVars, runVars, dbVars, wVars, fetch, parse, ex, lg, pg,
                   gate, stats, loc, dp, batch, res>>

\* a second passes while somebody sleeps
Tick ==
    /\ pace.client \in PaceClients /\ pace.now < MaxTime
    /\ \E t \in Coroutines : /\ pace.task[t].pc \in {"sleep", "backoff"}
                             /\ pace.task[t].wake > pace.now
    /\ pace' = [pace EXCEPT !.now = pace.now + 1]
    /\ UNCHANGED <<cpVars, runVars, dbVars, wVars, fetch, parse, ex, lg, pg,
                   gate, stats, loc, dp, batch, res>>

HcGetAny == \E t \in Coroutines : HcGet(t)

HcSendAny == \E t \in Coroutines : HcSend(t)

NextPacing == HcGetAny \/ HcSendAny \/ GpCall \/ GpSend \/ GpReturn \/ Tick

\* ------------------------------------------------------------ dispatchers
\* Largest per-task timeout, in time units.
MaxTaskTimeout == 2
\* A task works for at most MaxElapsed time units.
MaxElapsed == 3
\* Most chunk tasks of one dispatcher call.
MaxTasks == 2

\* process_activity_pages_chunk (asyncio.gather over the pages),
\* process_all_branches_with_details (ThreadPoolExecutor, as_completed) and
\* extract_activities_for_section (one chunk after the other)
Dispatchers == {"gather", "thread_pool", "sequential"}

DpTasks == 1..MaxTasks

DpIdle == [pc |-> "idle"]

\* The dispatcher has been called with n tasks; timeout is the per-task
\* timeout of the deployment, which none of the three dispatchers is given.
DpInit ==
    \E kind \in Dispatchers, timeout \in 1..MaxTaskTimeout, n \in DpTasks :
        dp = [kind |-> kind, timeout |-> timeout, n |-> n, pc |-> "waiting",
              task |-> [t \in DpTasks |->
                          [pc |-> IF t <= n THEN "pending" ELSE "absent",
                           elapsed |-> 0, records |-> 0]],
              result |-> 0, failed |-> 0]

\* a task is started: all at once by gather and the thread pool, the next
\* one after the previous has returned by the sequential loop
DpStart(t) ==
    /\ dp.pc = "waiting" /\ dp.task[t].pc = "pending"
    /\ dp.kind = "sequential" => \A u \in 1..(t - 1) : dp.task[u].pc = "done"
    /\ dp' = [dp EXCEPT !.task[t].pc = "running"]
    /\ UNCHANGED <<cpVars, runVars, dbVars, wVars, fetch, parse, ex, lg, pg,
                   gate, stats, loc, pace, batch, res>>

\* a running task spends a unit of time on a page and may get a record
DpWork(t) ==
    /\ dp.pc = "waiting" /\ dp.task[t].pc = "running"
    /\ dp.task[t].elapsed < MaxElapsed
    /\ \E got \in {0, 1} :
         dp' = [dp EXCEPT !.task[t].elapsed = @ + 1,
                          !.task[t].records = @ + got]
    /\ UNCHANGED <<cpVars, runVars, dbVars, wVars, fetch, parse, ex, lg, pg,
                   gate, stats, loc, pace, batch, res>>

\* a running task returns its records
DpComplete(t) ==
    /\ dp.pc = "waiting" /\ dp.task[t].pc = "running"
    /\ dp' = [dp EXCEPT !.task[t].pc = "done"]
    /\ UNCHANGED <<cpVars, runVars, dbVars, wVars, fetch, parse, ex, lg, pg,
                   gate, stats, loc, pace, batch, res>>

RECURSIVE SumRecords(_, _)
SumRecords(task, n) ==
    IF n = 0 THEN 0 ELSE task[n].records + SumRecords(task, n - 1)

\* await asyncio.gather(*tasks) / for future in as_completed(...):
\* future.result() / the for loop over the chunks: the dispatcher goes on
\* when every task has returned, however long that took, and takes every
\* task's records
DpReturn ==
    /\ dp.pc = "waiting"
    /\ \A t \in 1..dp.n : dp.task[t].pc = "done"
    /\ dp' = [dp EXCEPT !.pc = "returned",
                        !.result = SumRecords(dp.task, dp.n)]
    /\ UNCHANGED <<cpVars, runVars, dbVars, wVars, fetch, parse, ex, lg, pg,
                   gate, stats, loc, pace, batch, res>>

NextDispatch ==
    \/ \E t \in DpTasks : DpStart(t) \/ DpWork(t) \/ DpComplete(t)
    \/ DpReturn

\* ------------------------------------------------- sessions and connections
\* Most requests one scraper run sends.
MaxRunRequests == 2
\* Most sections that fail in one scraper run.
MaxRunErrors == 2

\* the scrapers that are run as "async with Scraper() as scraper"
Scrapers == {"AccountsScraper", "ActivitiesAndStatisticsScraper"}

ResIdle == [pc |-> "idle"]

\* "async with Scraper() as scraper: await scraper.scrape()" is about to
\* call __aenter__: no session, no connection
ResInit ==
    \E scraper \in Scrapers :
        res = [scraper |-> scraper, pc |-> "aenter",
               session |-> "None", opened |-> 0, closed |-> 0,
               conn |-> "None", acquired |-> 0, released |-> 0,
               requests |-> 0, errors |-> 0, sent_on_closed |-> FALSE,
               outcome |-> "none"]

\* ESNHTTPClient.__aenter__: a ClientSession is created when there is none
HcAenter(r) ==
    IF r.session # "open"
    THEN [r EXCEPT !.session = "open", !.opened = @ + 1]
    ELSE r

\* ESNHTTPClient.__aexit__: the session, if any, is closed and forgotten
HcAexit(r) ==
    IF r.session = "open"
    THEN [r EXCEPT !.session = "None", !.closed = @ + 1]
    ELSE r

\* Scraper.__aenter__, first statement: super().__aenter__() ->
\* _initialize_session -> ESNHTTPClient().__aenter__()
ScAenterSession ==
    /\ res.pc = "aenter"
    /\ res' = [HcAenter(res) EXCEPT !.pc = "aenter_db"]
    /\ UNCHANGED <<cpVars, runVars, dbVars, wVars, fetch, parse, ex, lg, pg,
                   gate, stats, loc, pace, dp, batch>>

\* Scraper.__aenter__, then: DatabaseOperations().__aenter__() acquires a
\* connection from the pool. When get_db_connection or pool.acquire raises,
\* __aenter__ raises: the body of the async with and __aexit__ are not run.
ScAenterDb ==
    /\ res.pc = "aenter_db"
    /\ \E ok \in BOOLEAN :
         res' = IF ok
                THEN [res EXCEPT !.pc = "scrape", !.conn = "held",
                                 !.acquired = @ + 1]
                ELSE [res EXCEPT !.pc = "ended", !.outcome = "raised"]
    /\ UNCHANGED <<cpVars, runVars, dbVars, wVars, fetch, parse, ex, lg, pg,
                   gate, stats, loc, pace, dp, batch>>

\* scrape(): one request through ESNHTTPClient.get, which enters the
\* client again when it has no session
ScRequest ==
    /\ res.pc = "scrape" /\ res.requests < MaxRunRequests
    /\ res' = [HcAenter(res) EXCEPT !.requests = @ + 1]
    /\ UNCHANGED <<cpVars, runVars, dbVars, wVars, fetch, parse, ex, lg, pg,
                   gate, stats, loc, pace, dp, batch>>

\* scrape(): a section fails; the exception is caught and counted
ScSectionFails ==
    /\ res.pc = "scrape" /\ res.errors < MaxRunErrors
    /\ res' = [res EXCEPT !.errors = @ + 1]
    /\ UNCHANGED <<cpVars, runVars, dbVars, wVars, fetch, parse, ex, lg, pg,
                   gate, stats, loc, pace, dp, batch>>

\* scrape() returns or raises; either way the async with calls __aexit__
ScScrapeEnds ==
    /\ res.pc = "scrape"
    /\ \E outcome \in {"returned", "raised"} :
         res' = [res EXCEPT !.pc = "aexit", !.outcome = outcome]
    /\ UNCHANGED <<cpVars, runVars, dbVars, wVars, fetch, parse, ex, lg, pg,
                   gate, stats, loc, pace, dp, batch>>

\* Scraper.__aexit__, first statement: db_ops.__aexit__ releases the
\* connection. When pool.release raises, the exception leaves __aexit__
\* before super().__aexit__ is reached.
ScAexitDb ==
    /\ res.pc = "aexit"
    /\ \E ok \in BOOLEAN :
         res' = IF ok
                THEN [res EXCEPT !.pc = "aexit_session", !.conn = "None",
                                 !.released = @ + 1]
                ELSE [res EXCEPT !.pc = "ended", !.outcome = "raised"]
    /\ UNCHANGED <<cpVars, runVars, dbVars, wVars, fetch, parse, ex, lg, pg,
                   gate, stats, loc, pace, dp, batch>>

\* Scraper.__aexit__, then: super().__aexit__ -> _cleanup_session ->
\* http_client.__aexit__
ScAexitSession ==
    /\ res.pc = "aexit_session"
    /\ res' = [HcAexit(res) EXCEPT !.pc = "ended"]
    /\ UNCHANGED <<cpVars, runVars, dbVars, wVars, fetch, parse, ex, lg, pg,
                   gate, stats, loc, pace, dp, batch>>

NextSessions ==
    \/ ScAenterSession \/ ScAenterDb
    \/ ScRequest \/ ScSectionFails \/ ScScrapeEnds
    \/ ScAexitDb \/ ScAexitSession

\* ------------------------------------------------------------ crawl runs
HeadOutcomes == {"200", "404", "error"}

NoCheck == [checked |-> FALSE, has_slug |-> FALSE, head |-> "none"]

validate_slug_url_any_status(head) == head # "error"

\* BaseScraper.validate_slug_url: response.status == 200; every exception
\* of the HEAD request is caught and gives False
validate_slug_url(head) == head = "200"

\* AccountsScraper.validate_activities_slug: False without a slug, else the
\* result of validate_slug_url, False if that raised
validate_activities_slug(has_slug, head) ==
    IF ~has_slug THEN FALSE ELSE validate_slug_url(head)

NoResults == [countries_processed |-> 0, sections_processed |-> 0,
              sections_validated |-> 0, errors |-> 0,
              total_sections |-> 0, validated_sections |-> 0,
              start_time |-> 0, end_time |-> 0, returned |-> "no"]

RunInit ==
    /\ sections \in [Slugs -> {NoRow} \cup
                       [present : {TRUE}, last_scraped : 0..MaxInitTime,
                        can_scrape : BOOLEAN]]
    /\ countries \in [CountryCodes -> {NoCountry, extract_countries_row}]
    /\ db_now = MaxInitTime + 1
    /\ run \in {"accounts", "activities"}
    /\ run_pc = "start"
    /\ run_snapshot = [s \in Slugs |-> 0]
    /\ run_queue = << >>
    /\ run_i = 1
    /\ run_sections = << >>
    /\ run_processed = << >>
    /\ run_results = NoResults
    /\ run_checks = [s \in Slugs |-> NoCheck]

RunIdle ==
    /\ sections = [s \in Slugs |-> NoRow]
    /\ countries = [c \in CountryCodes |-> NoCountry]
    /\ db_now = MaxInitTime + 1
    /\ run = "none"
    /\ run_pc = "idle"
    /\ run_snapshot = [s \in Slugs |-> 0]
    /\ run_queue = << >>
    /\ run_i = 1
    /\ run_sections = << >>
    /\ run_processed = << >>
    /\ run_results = NoResults
    /\ run_checks = [s \in Slugs |-> NoCheck]

\* AccountsScraper.scrape, steps 1-3: extract_countries (returns [] on any
\* failure), insert_country for each in page order, then
\* get_sections_by_last_scraped(). A database error escapes to the outer
\* handler and is re-raised: on the k-th insert_country the countries
\* before it are stored and the ones after it are never attempted; on
\* get_sections_by_last_scraped (k = Len(found) + 1) all of them are stored.
AcBegin ==
    /\ run = "accounts" /\ run_pc = "start"
    /\ \E outcome \in {"ok", "empty", "dberror"},
          k \in 1..(Len(SiteCountries) + 1),
          extracted \in BOOLEAN,
          existing \in get_sections_by_last_scraped(sections, 0) :
        LET found == IF outcome = "empty" \/ ~extracted THEN << >>
                     ELSE SiteCountries IN
        /\ outcome # "dberror" => extracted
        /\ k <= Len(found) + 1
        /\ IF outcome = "dberror"
           THEN /\ countries' = InsertCountries(countries,
                                                SubSeq(found, 1, k - 1))
                /\ run_results' = [run_results EXCEPT
                                      !.countries_processed =
                                          IF k = Len(found) + 1
                                          THEN Len(found) ELSE @,
                                      !.errors = @ + 1,
                                      !.returned = "raised"]
                /\ run_queue' = found
                /\ run_i' = k
                /\ run_pc' = "done"
                /\ UNCHANGED run_snapshot
           ELSE /\ k = 1
                /\ countries' = InsertCountries(countries, found)
                /\ run_results' = [run_results EXCEPT
                                      !.countries_processed = Len(found)]
                /\ run_snapshot' = [s \in Slugs |-> sections[s].last_scraped]
                /\ run_queue' = found
                /\ run_pc' = "country"
                /\ UNCHANGED run_i
    /\ UNCHANGED <<sections, db_now, run, run_sections, run_processed,
                   run_checks>>
    /\ UNCHANGED <<cpVars, dbVars, wVars, fetch, parse, ex, lg, pg, gate,
                   stats, loc, pace, dp, batch, res>>

\* for country in countries: extract_sections_for_country(country) or the
\* per-country handler that appends to results["errors"].
AcCountry ==
    /\ run = "accounts" /\ run_pc = "country" /\ run_i <= Len(run_queue)
    /\ \E ok \in BOOLEAN :
        IF ok
        THEN /\ run_sections' = SiteSections[run_queue[run_i]]
             /\ run_pc' = "section"
             /\ UNCHANGED <<run_i, run_results>>
        ELSE /\ run_results' = [run_results EXCEPT !.errors = @ + 1]
             /\ run_i' = run_i + 1
             /\ UNCHANGED <<run_sections, run_pc>>
    /\ UNCHANGED <<sections, countries, run_checks, db_now, run, run_snapshot, run_queue, run_processed>>
    /\ UNCHANGED <<cpVars, dbVars, wVars, fetch, parse, ex, lg, pg, gate,
                   stats, loc, pace, dp, batch, res>>

\* for section in sections: validate_activities_slug (sets
\* section.can_scrape_activities), section.dict(), insert_section,
\* update_section_last_scraped, total_sections += 1. A database error in
\* insert_section stores nothing; one in update_section_last_scraped comes
\* after the row was inserted or updated. Either goes to the per-country
\* handler, which counts it and leaves the rest of the country's sections.
AcSection ==
    /\ run = "accounts" /\ run_pc = "section" /\ run_sections # << >>
    /\ \E has_slug \in BOOLEAN, head \in HeadOutcomes,
          ins \in {"ok", "dberror", "update_dberror"} :
        LET s == Head(run_sections)
            valid == validate_activities_slug(has_slug, head)
            nval == run_results.validated_sections + (IF valid THEN 1 ELSE 0)
        IN
        /\ ~has_slug => head = "error"
        /\ run_checks' = [run_checks EXCEPT
                             ![s] = [checked |-> TRUE, has_slug |-> has_slug,
                                     head |-> IF has_slug THEN head
                                              ELSE "none"]]
        /\ IF ins = "ok"
           THEN /\ sections' = update_section_last_scraped(
                                   insert_section(sections, s, valid), s, db_now)
                /\ db_now' = db_now + 1
                /\ run_results' = [run_results EXCEPT
                                      !.validated_sections = nval,
                                      !.total_sections = @ + 1]
                /\ run_processed' = Append(run_processed, s)
                /\ run_sections' = Tail(run_sections)
                /\ UNCHANGED <<run_i, run_pc>>
           ELSE /\ run_results' = [run_results EXCEPT
                                      !.validated_sections = nval,
                                      !.errors = @ + 1]
                /\ run_sections' = << >>
                /\ run_i' = run_i + 1
                /\ run_pc' = "country"
                /\ sections' = IF ins = "update_dberror"
                               THEN insert_section(sections, s, valid)
                               ELSE sections
                /\ UNCHANGED <<db_now, run_processed>>
    /\ UNCHANGED <<countries, run, run_snapshot, run_queue>>
    /\ UNCHANGED <<cpVars, dbVars, wVars, fetch, parse, ex, lg, pg, gate,
                   stats, loc, pace, dp, batch, res>>

\* end of the inner loop: next country
AcCountryDone ==
    /\ run = "accounts" /\ run_pc = "section" /\ run_sections = << >>
    /\ run_i' = run_i + 1
    /\ run_pc' = "country"
    /\ UNCHANGED <<sections, countries, run_checks, db_now, run, run_snapshot, run_queue,
                   run_sections, run_processed, run_results>>
    /\ UNCHANGED <<cpVars, dbVars, wVars, fetch, parse, ex, lg, pg, gate,
                   stats, loc, pace, dp, batch, res>>

\* after the loop: fill the counters and return results (start_time and
\* end_time are never assigned)
AcFinish ==
    /\ run = "accounts" /\ run_pc = "country" /\ run_i > Len(run_queue)
    /\ run_results' = [run_results EXCEPT
                          !.sections_processed = run_results.total_sections,
                          !.sections_validated = run_results.validated_sections,
                          !.returned = "results"]
    /\ run_pc' = "done"
    /\ UNCHANGED <<sections, countries, run_checks, db_now, run, run_snapshot, run_queue, run_i,
                   run_sections, run_processed>>
    /\ UNCHANGED <<cpVars, dbVars, wVars, fetch, parse, ex, lg, pg, gate,
                   stats, loc, pace, dp, batch, res>>

\* The clock of repeated runs stops at MaxClock.
MaxClock == MaxInitTime + 4

NextClock(t) == IF t < MaxClock THEN t + 1 ELSE t

\* ActivitiesAndStatisticsScraper.scrape without section_slug:
\* results["start_time"] = now; sections = get_sections_to_scrape(limit).
\* A database error at the SELECT goes to the outer handler, which appends
\* it to results["errors"] and raises again.
RcBegin ==
    /\ run = "activities" /\ run_pc = "start"
    /\ \E max_sections \in 0..MaxSections, ok \in BOOLEAN :
         IF ok
         THEN /\ \E q \in get_sections_to_scrape(sections, max_sections) :
                    run_queue' = q
              /\ run_results' = [run_results EXCEPT !.start_time = db_now]
              /\ run_pc' = "section"
         ELSE /\ max_sections = 0
              /\ run_queue' = << >>
              /\ run_results' = [run_results EXCEPT !.start_time = db_now,
                                                    !.errors = @ + 1,
                                                    !.returned = "raised"]
              /\ run_pc' = "done"
    /\ run_snapshot' = [s \in Slugs |-> sections[s].last_scraped]
    /\ db_now' = NextClock(db_now)
    /\ UNCHANGED <<sections, countries, run_checks, run, run_i, run_sections,
                   run_processed>>
    /\ UNCHANGED <<cpVars, dbVars, wVars, fetch, parse, ex, lg, pg, gate,
                   stats, loc, pace, dp, batch, res>>

\* for section in sections: only 'esn-lille' reaches process_section, which
\* catches every exception of extract_section_activities and writes nothing
\* (the upserts and update_section_last_scraped are commented out).
RcSection ==
    /\ run = "activities" /\ run_pc = "section" /\ run_i <= Len(run_queue)
    /\ run_processed' = IF run_queue[run_i] = "esn-lille"
                        THEN Append(run_processed, run_queue[run_i])
                        ELSE run_processed
    /\ run_i' = run_i + 1
    /\ UNCHANGED <<sections, countries, run_checks, db_now, run, run_pc, run_snapshot, run_queue,
                   run_sections, run_results>>
    /\ UNCHANGED <<cpVars, dbVars, wVars, fetch, parse, ex, lg, pg, gate,
                   stats, loc, pace, dp, batch, res>>

\* the method ends without a return statement: the caller gets None
RcFinish ==
    /\ run = "activities" /\ run_pc = "section" /\ run_i > Len(run_queue)
    /\ run_results' = [run_results EXCEPT !.returned = "None"]
    /\ run_pc' = "done"
    /\ UNCHANGED <<sections, countries, run_checks, db_now, run, run_snapshot, run_queue, run_i,
                   run_sections, run_processed>>
    /\ UNCHANGED <<cpVars, dbVars, wVars, fetch, parse, ex, lg, pg, gate,
                   stats, loc, pace, dp, batch, res>>

\* the record crawl is run again (the scheduler of the runs is outside the
\* repository): a new scraper object, a new results dictionary
RcAgain ==
    /\ run = "activities" /\ run_pc = "done"
    /\ run_pc' = "start"
    /\ run_i' = 1
    /\ run_queue' = << >>
    /\ run_processed' = << >>
    /\ run_results' = NoResults
    /\ UNCHANGED <<sections, countries, run_checks, db_now, run, run_snapshot,
                   run_sections>>
    /\ UNCHANGED <<cpVars, dbVars, wVars, fetch, parse, ex, lg, pg, gate,
                   stats, loc, pace, dp, batch, res>>

NextRepeat == RcBegin \/ RcSection \/ RcFinish \/ RcAgain

RunNext == AcBegin \/ AcCountry \/ AcSection \/ AcCountryDone \/ AcFinish
              \/ RcBegin \/ RcSection \/ RcFinish

WIdle ==
    /\ w_pc = << >> /\ w_data = << >> /\ w_i = << >> /\ w_result = << >>
    /\ w_last = << >>

InitChunks == CpInit /\ RunIdle /\ DbIdle /\ WIdle /\ fetch = FetchIdle /\ parse = ParseIdle /\ ex = ExIdle /\ lg = LgIdle /\ pg = PgIdle /\ gate = GateIdle /\ stats = StatsIdle /\ loc = LocIdle /\ pace = PaceIdle /\ dp = DpIdle /\ batch = BatchIdle /\ res = ResIdle
NextChunks == CreateChunks
SpecChunks == InitChunks /\ [][NextChunks]_vars

InitCrawl == CpIdle /\ RunInit /\ DbIdle /\ WIdle /\ fetch = FetchIdle /\ parse = ParseIdle /\ ex = ExIdle /\ lg = LgIdle /\ pg = PgIdle /\ gate = GateIdle /\ stats = StatsIdle /\ loc = LocIdle /\ pace = PaceIdle /\ dp = DpIdle /\ batch = BatchIdle /\ res = ResIdle
SpecCrawl == InitCrawl /\ [][RunNext]_vars

\* record-crawl runs one after the other; every run that can take a step
\* eventually takes it
InitRepeat == InitCrawl /\ run = "activities"
SpecRepeat == InitRepeat /\ [][NextRepeat]_vars /\ WF_vars(NextRepeat)

InitUpsert == CpIdle /\ RunIdle /\ DbInit /\ WIdle /\ fetch = FetchIdle /\ parse = ParseIdle /\ ex = ExIdle /\ lg = LgIdle /\ pg = PgIdle /\ gate = GateIdle /\ stats = StatsIdle /\ loc = LocIdle /\ pace = PaceIdle /\ dp = DpIdle /\ batch = BatchIdle /\ res = ResIdle
SpecUpsert == InitUpsert /\ [][NextUpsert]_vars

InitWorkers == CpIdle /\ RunIdle /\ DbIdle /\ WInit /\ fetch = FetchIdle /\ parse = ParseIdle /\ ex = ExIdle /\ lg = LgIdle /\ pg = PgIdle /\ gate = GateIdle /\ stats = StatsIdle /\ loc = LocIdle /\ pace = PaceIdle /\ dp = DpIdle /\ BatchInit /\ res = ResIdle
SpecWorkers == InitWorkers /\ [][NextWorkers]_vars

InitFetch == CpIdle /\ RunIdle /\ DbIdle /\ WIdle /\ fetch = FetchCall /\ parse = ParseIdle /\ ex = ExIdle /\ lg = LgIdle /\ pg = PgIdle /\ gate = GateIdle /\ stats = StatsIdle /\ loc = LocIdle /\ pace = PaceIdle /\ dp = DpIdle /\ batch = BatchIdle /\ res = ResIdle
SpecFetch == InitFetch /\ [][NextFetch]_vars

InitParse == CpIdle /\ RunIdle /\ DbIdle /\ WIdle /\ fetch = FetchIdle /\ ParseInit /\ ex = ExIdle /\ lg = LgIdle /\ pg = PgIdle /\ gate = GateIdle /\ stats = StatsIdle /\ loc = LocIdle /\ pace = PaceIdle /\ dp = DpIdle /\ batch = BatchIdle /\ res = ResIdle
SpecParse == InitParse /\ [][NextParse]_vars

InitExtract == CpIdle /\ RunIdle /\ DbIdle /\ WIdle /\ fetch = FetchIdle /\ parse = ParseIdle /\ ExInit /\ lg = LgIdle /\ pg = PgIdle /\ gate = GateIdle /\ stats = StatsIdle /\ loc = LocIdle /\ pace = PaceIdle /\ dp = DpIdle /\ batch = BatchIdle /\ res = ResIdle
SpecExtract == InitExtract /\ [][NextExtract]_vars

InitLegacy == CpIdle /\ RunIdle /\ DbIdle /\ WIdle /\ fetch = FetchIdle /\ parse = ParseIdle /\ ex = ExIdle /\ LgInit /\ pg = PgIdle /\ gate = GateIdle /\ stats = StatsIdle /\ loc = LocIdle /\ pace = PaceIdle /\ dp = DpIdle /\ batch = BatchIdle /\ res = ResIdle
SpecLegacy == InitLegacy /\ [][NextLegacy]_vars
\* get_all_organisation_activities alone: the loop keeps taking its turns
NextListing == GetEventsPage
SpecListing == InitLegacy /\ [][NextListing]_vars /\ WF_vars(NextListing)

InitPagination == CpIdle /\ RunIdle /\ DbIdle /\ WIdle /\ fetch = FetchIdle /\ parse = ParseIdle /\ ex = ExIdle /\ lg = LgIdle /\ PgInit /\ gate = GateIdle /\ stats = StatsIdle /\ loc = LocIdle /\ pace = PaceIdle /\ dp = DpIdle /\ batch = BatchIdle /\ res = ResIdle
SpecPagination == InitPagination /\ [][NextPagination]_vars

InitGate == CpIdle /\ RunIdle /\ DbIdle /\ WIdle /\ fetch = FetchIdle /\ parse = ParseIdle /\ ex = ExIdle /\ lg = LgIdle /\ pg = PgIdle /\ GateInit /\ stats = StatsIdle /\ loc = LocIdle /\ pace = PaceIdle /\ dp = DpIdle /\ batch = BatchIdle /\ res = ResIdle
SpecGate == InitGate /\ [][NextGate]_vars

InitStats == CpIdle /\ RunIdle /\ DbIdle /\ WIdle /\ fetch = FetchIdle /\ parse = ParseIdle /\ ex = ExIdle /\ lg = LgIdle /\ pg = PgIdle /\ gate = GateIdle /\ StatsInit /\ loc = LocIdle /\ pace = PaceIdle /\ dp = DpIdle /\ batch = BatchIdle /\ res = ResIdle
SpecStats == InitStats /\ [][NextStats]_vars

InitLocation == CpIdle /\ RunIdle /\ DbIdle /\ WIdle /\ fetch = FetchIdle /\ parse = ParseIdle /\ ex = ExIdle /\ lg = LgIdle /\ pg = PgIdle /\ gate = GateIdle /\ stats = StatsIdle /\ LocInit /\ pace = PaceIdle /\ dp = DpIdle /\ batch = BatchIdle /\ res = ResIdle
SpecLocation == InitLocation /\ [][NextLocation]_vars

InitPacing == CpIdle /\ RunIdle /\ DbIdle /\ WIdle /\ fetch = FetchIdle /\ parse = ParseIdle /\ ex = ExIdle /\ lg = LgIdle /\ pg = PgIdle /\ gate = GateIdle /\ stats = StatsIdle /\ loc = LocIdle /\ PaceInit /\ dp = DpIdle /\ batch = BatchIdle /\ res = ResIdle
SpecPacing == InitPacing /\ [][NextPacing]_vars

InitDispatch == CpIdle /\ RunIdle /\ DbIdle /\ WIdle /\ fetch = FetchIdle /\ parse = ParseIdle /\ ex = ExIdle /\ lg = LgIdle /\ pg = PgIdle /\ gate = GateIdle /\ stats = StatsIdle /\ loc = LocIdle /\ pace = PaceIdle /\ DpInit /\ batch = BatchIdle /\ res = ResIdle
SpecDispatch == InitDispatch /\ [][NextDispatch]_vars

InitSessions == CpIdle /\ RunIdle /\ DbIdle /\ WIdle /\ fetch = FetchIdle /\ parse = ParseIdle /\ ex = ExIdle /\ lg = LgIdle /\ pg = PgIdle /\ gate = GateIdle /\ stats = StatsIdle /\ loc = LocIdle /\ pace = PaceIdle /\ dp = DpIdle /\ batch = BatchIdle /\ ResInit
SpecSessions == InitSessions /\ [][NextSessions]_vars

CeilDiv(a, b) == (a + b - 1) \div b

\* C1: create_chunks(lastPage, chunkSize) starts at 0, ends at lastPage, is
\* contiguous without gaps or overlaps, every chunk is non-empty and holds at
\* most chunkSize pages, and there are ceil((lastPage+1)/chunkSize) chunks;
\* lastPage=0 gives [(0,0)] and lastPage=12, chunkSize=5 gives
\* [(0,4),(5,9),(10,12)].
C1_ChunkPlan ==
    cp_pc = "done" =>
        /\ Len(cp_chunks) = CeilDiv(cp_lastPage + 1, cp_chunkSize)
        /\ Len(cp_chunks) >= 1
        /\ cp_chunks[1][1] = 0
        /\ cp_chunks[Len(cp_chunks)][2] = cp_lastPage
        /\ \A k \in 1..Len(cp_chunks) :
              /\ cp_chunks[k][1] <= cp_chunks[k][2]
              /\ cp_chunks[k][2] - cp_chunks[k][1] + 1 <= cp_chunkSize
              /\ k > 1 => cp_chunks[k][1] = cp_chunks[k-1][2] + 1
        /\ cp_lastPage = 0 => cp_chunks = << <<0, 0>> >>
        /\ (cp_lastPage = 12 /\ cp_chunkSize = 5) =>
              cp_chunks = << <<0, 4>>, <<5, 9>>, <<10, 12>> >>

C1_Witness ==
    /\ cp_pc = "done"
    /\ cp_lastPage = 12
    /\ cp_chunkSize = 5
    /\ Len(cp_chunks) = 3

\* C2: in every crawl run entities are processed in ascending staleness
\* order: an entity whose last_scraped was NULL (0) when the run started comes
\* before every entity with a timestamp, and older timestamps come first.
C2_StalenessOrder ==
    \A i, j \in 1..Len(run_processed) :
        i < j => run_snapshot[run_processed[i]] <= run_snapshot[run_processed[j]]

KeyCol(fn) == IF fn = "insert_activity" THEN "event_slug" ELSE "activity_id"
TableOf(fn, h) == IF fn = "insert_activity" THEN h.activities ELSE h.legacy
\* the columns a caller supplies, without the bookkeeping column updated_at
DataOf(fn, row) ==
    IF fn = "insert_activity"
    THEN [event_slug |-> row.event_slug, title |-> row.title,
          start_date |-> row.start_date, participants |-> row.participants,
          is_valid |-> row.is_valid]
    ELSE row
WithoutUpdatedAt(h) ==
    [activities |-> {DataOf("insert_activity", row) : row \in h.activities},
     legacy |-> h.legacy]

\* after the k-th upsert: one row for its key, carrying the upsert's values
\* and the same key, and the rows of other keys are as before
LastWriteWins(k) ==
    LET fn == up_recs[k].fn
        d == up_recs[k].d
        col == KeyCol(fn)
        before == TableOf(fn, up_hist[k])
        after == TableOf(fn, up_hist[k + 1])
        mine == {row \in after : row[col] = d[col]}
    IN /\ Cardinality(mine) = 1
       /\ \A row \in mine : DataOf(fn, row) = d
       /\ {row \in after : row[col] # d[col]} = {row \in before : row[col] # d[col]}
       /\ Cardinality(after) = Cardinality({row[col] : row \in after})

\* C3 (as claimed): upsert(r) applied twice leaves the same store as applied
\* once, with one row for r's key; upsert(r1) then upsert(r2) on one key
\* leaves one row with r2's values and the same key; other rows are untouched.
C3_UpsertIdempotent ==
    \A k \in 1..Len(up_recs) :
        /\ LastWriteWins(k)
        /\ (k > 1 /\ up_recs[k - 1] = up_recs[k]) => up_hist[k + 1] = up_hist[k]

\* C3 (amended): the same, where the store after the second application
\* equals the store after the first in every column except updated_at, which
\* insert_activity sets to the time of the latest application.
C3_UpsertIdempotentUpToUpdatedAt ==
    \A k \in 1..Len(up_recs) :
        /\ LastWriteWins(k)
        /\ (k > 1 /\ up_recs[k - 1] = up_recs[k]) =>
              /\ WithoutUpdatedAt(up_hist[k + 1]) = WithoutUpdatedAt(up_hist[k])
              /\ up_recs[k].fn = "insert_activity_data" => up_hist[k + 1] = up_hist[k]

\* upsert(r) applied twice to a store that already held a row of r's key
\* and a row of another key
C3_Witness ==
    /\ Len(up_recs) = 2
    /\ up_recs[1] = up_recs[2]
    /\ up_recs[1].fn = "insert_activity"
    /\ \E row \in up_hist[1].activities :
          row.event_slug = up_recs[1].d.event_slug
    /\ \E row \in up_hist[1].activities :
          row.event_slug # up_recs[1].d.event_slug
    /\ Cardinality(activities) = 2

KeyColOfTable(tb) == IF tb = "activities" THEN "activity_id" ELSE "organisation_id"

\* C4: under every interleaving of the workers' upserts each table holds at
\* most one row per key, the row is exactly the row written by the last
\* committed upsert of that key (never a mix of two writers), and a committed
\* upsert is lost only to a later upsert of the same key.
C4_ConcurrentUpserts ==
    \A k \in Keys :
        /\ {row \in legacy[k[1]] : row[KeyColOfTable(k[1])] = k[2]} = w_last[k]
        /\ Cardinality(w_last[k]) <= 1
        /\ \A row \in legacy[k[1]] : \E t \in Threads :
              row \in {OrgRow(t, row.organisation_id),
                       StatRow(t, row.organisation_id),
                       ActRow(t, row.organisation_id, row[KeyColOfTable(k[1])])}

C4_Witness ==
    /\ \A t \in Threads : w_pc[t] = "done" /\ w_result[t] = "success"
    /\ w_data["t1"].org = w_data["t2"].org
    /\ \E i \in 1..Len(w_data["t1"].acts), j \in 1..Len(w_data["t2"].acts) :
          w_data["t1"].acts[i] = w_data["t2"].acts[j]

\* a page from which no start date can be extracted: no date element, or a
\* first date element that does not parse
NoStartDate(doc) == Len(doc.dates) = 0 \/ parse_date_safely(doc.dates[1]) = NoDate

\* C5: a detail page from which no start date can be extracted yields a
\* record whose valid flag is false: the record is neither dropped nor
\* emitted as valid.
C5_MissingDateInvalid ==
    (parse.pc = "done" /\ NoStartDate(parse.doc)) =>
        /\ parse.out # <<>>
        /\ ~ parse.out[1].is_valid

\* the records of the first n pages of a chunk, in page order
RECURSIVE RecordsOfPages(_, _)
RecordsOfPages(pages, n) ==
    IF n = 0 THEN <<>> ELSE RecordsOfPages(pages, n - 1) \o pages[n].records

\* the dispatcher went on after its k-th chunk: a later chunk runs or has
\* run, or the dispatcher has returned with every chunk of the plan reported
WentOnAfter(k) ==
    IF ex.pc = "done" THEN Len(ex.log) = Len(ex.chunks)
    ELSE ex.ci > k /\ ex.ci <= Len(ex.chunks)

\* C6: when the fetch of listing page p inside a chunk of
\* extract_activities_chunk meets a 404, the fetch path returns the empty
\* content without raising, p is the last page the chunk requests, the chunk
\* returns the records of the pages before p, the dispatcher goes on with
\* the next chunk, and no error is added to the caller's count.
C6_NotFoundStopsChunk ==
    ex.path = "extractor" =>
        \A k \in 1..Len(ex.log) :
            LET c == ex.log[k]
            IN \A j \in 1..Len(c.pages) :
                c.pages[j].status = "404" =>
                    /\ c.pages[j].result = ""
                    /\ j = Len(c.pages)
                    /\ \A i \in 1..Len(c.pages) : c.pages[i].page <= c.pages[j].page
                    /\ c.returned = RecordsOfPages(c.pages, j - 1)
                    /\ WentOnAfter(k)
                    /\ ex.errors = 0

\* a chunk of two pages or more met a 404 after a page that gave records,
\* with a page of the chunk still to come
C6_Witness ==
    /\ ex.path = "extractor"
    /\ \E k \in 1..Len(ex.log) :
        LET c == ex.log[k]
            n == Len(c.pages)
        IN /\ n >= 2
           /\ c.pages[n].status = "404"
           /\ c.pages[n].page < c.chunk[2]
           /\ c.returned # <<>>

\* C7: a 429 response, or a 403 with the Cloudflare marker, ends the fetch at
\* once with the distinguished error: no content, no further request for the
\* URL and no backoff before the error reaches the caller.
C7_BlockedNotRetried ==
    fetch.blocked_at # 0 =>
        /\ fetch.pc = "done"
        /\ fetch.result \in {"RateLimitError", "CloudflareError"}
        /\ fetch.requests = fetch.blocked_at
        /\ fetch.wait = 0

\* C8: when every attempt fails with a network or timeout error the fetch
\* sends at most MAX_RETRIES + 1 requests, its backoff waits never decrease
\* from one retry to the next, and it ends by raising the terminal error.
C8_RetryCeiling ==
    fetch.only_net =>
        /\ fetch.requests <= MAX_RETRIES + 1
        /\ (fetch.pc = "get" /\ fetch.requests >= 2) => fetch.wait >= fetch.prev_wait
        /\ (fetch.pc = "done" /\ fetch.result \notin {"page", "", "errorpage"})
               => fetch.result = "ScrapingError"

\* a chunk failed when its page loop, or one of its page tasks, ended with
\* an error other than the 404 that ends the pagination
FailedChunk(c) == c.stop = "error"

\* the records of the chunks among the first n of the log that succeeded
RECURSIVE RecordsOfSucceeded(_, _)
RecordsOfSucceeded(log, n) ==
    IF n = 0 THEN <<>>
    ELSE RecordsOfSucceeded(log, n - 1)
         \o (IF FailedChunk(log[n]) THEN <<>> ELSE log[n].returned)

\* C9: whichever chunks fail, every chunk of the plan is executed and the
\* dispatcher returns the records of exactly the chunks that succeeded: no
\* record of a failed chunk, every record of a succeeded one.
C9_ResultIsSucceededChunks ==
    (ex.pc = "done" /\ ex.chunks # <<>>) =>
        /\ Len(ex.log) = Len(ex.chunks)
        /\ \A k \in 1..Len(ex.log) : ex.log[k].chunk = ex.chunks[k]
        /\ ex.result = RecordsOfSucceeded(ex.log, Len(ex.log))

\* C10: every chunk that fails during a run adds one to the errors reported
\* to the dispatcher's caller: the error count is at least the number of
\* failed chunks.
C10_FailedChunksCounted ==
    ex.errors >= Cardinality({k \in 1..Len(ex.log) : FailedChunk(ex.log[k])})

\* the listing entry a stored or returned activity came from
LinkOf(a) == <<a.activity_id[2], a.activity_id[3]>>

\* C11: a listing entry whose detail fetch failed after all retries produces
\* no record: nothing for it is in the list the scraper returns and nothing
\* for it is stored, while the other entries keep their records.
C11_FailedDetailOmitted ==
    \A link \in lg.failed_links :
        /\ \A k \in 1..Len(lg.all_activities) : LinkOf(lg.all_activities[k]) # link
        /\ \A row \in lg.stored : LinkOf(row) # link

\* C12: find_last_page_number returns 0 when the last-page link is absent and
\* on a parse anomaly of the link (no href, no page value, a page value that
\* is not a number), and otherwise the page number the link carries.
C12_LastPageNumber ==
    (pg.pc = "done" /\ pg.fn = "find_last_page_number") =>
        LET link == pg.link
            anomaly == \/ link.kind # "href"
                       \/ PageParams(link) = {}
                       \/ \E k \in PageParams(link) : ~ link.params[k].value.num
        IN IF anomaly THEN pg.out = 0
           ELSE \E k \in PageParams(link) : pg.out = link.params[k].value.n

\* C13: the validation gate rejects a run report exactly when fewer than 40
\* countries or fewer than 400 sections were processed, or validated /
\* processed is below 0.7, or the errors exceed 0.1 x processed; the report
\* with 10 processed, 6 validated and 3 errors is rejected.
C13_ValidationGate ==
    gate.pc = "done" =>
        LET d == gate.data
            rejected ==
                \/ d.countries_processed <= 39
                \/ d.sections_processed <= 399
                \/ (d.sections_processed >= 1 /\
                    d.sections_validated * 10 <= d.sections_processed * 7 - 1)
                \/ d.errors * 10 >= d.sections_processed + 1
        IN /\ gate.out = ~ rejected
           /\ (d.sections_processed = 10 /\ d.sections_validated = 6 /\ d.errors = 3)
                  => ~ gate.out

\* a report with enough countries, sections and few errors was rejected for
\* its validation rate alone
C13_Witness ==
    /\ gate.pc = "done"
    /\ gate.data.countries_processed >= MIN_COUNTRIES
    /\ gate.data.sections_processed >= MIN_SECTIONS
    /\ gate.data.errors = 0
    /\ ~ gate.out

\* C14: every crawl run that has ended handed its caller one Run Report
\* (the results dictionary) carrying both a start and an end timestamp
\* (0 stands for None), whatever failed underneath.
C14_RunYieldsReport ==
    run_pc = "done" =>
        /\ run_results.returned = "results"
        /\ run_results.start_time # 0
        /\ run_results.end_time # 0

\* C15: a persistence failure on one record is contained. When the upsert
\* of a country fails the run goes on to the country loop (it is not
\* aborted), and when the upsert of a section fails the remaining sections
\* of the same country are still to be processed.
C15_PersistenceFailureContained ==
    [][/\ (run_pc = "start" /\ run_results'.errors > run_results.errors)
            => run_pc' = "country"
       /\ (run_pc = "section" /\ run_results'.errors > run_results.errors)
            => run_sections' = Tail(run_sections)]_vars

\* C16: a Statistics Snapshot that is returned or persisted carries at least
\* one cause row, one type row and one participant-class row; a page with
\* an empty breakdown dimension gives no snapshot (None) and no stored row.
C16_SnapshotDimensions ==
    /\ \A i \in 1..Len(stats.out) :
          SectionStatisticsModelAccepts(stats.out[i].causes,
                                        stats.out[i].types,
                                        stats.out[i].participants)
    /\ \A row \in stats.stored :
          SectionStatisticsModelAccepts(row.causes, row.types,
                                        row.participants)

\* C17: for a detail document that carries the online marker, location
\* extraction returns the country code "Online" and as city the platform
\* name found in the document ("Online" when none is found); neither value
\* is an unknown placeholder.
C17_OnlineLocation ==
    (loc.pc = "done" /\ loc.doc.online) =>
        LET platform == IF loc.doc.block /\ loc.doc.spans # << >>
                        THEN get_text_safely(loc.doc.spans[1]) ELSE ""
        IN /\ loc.country = "Online"
           /\ loc.city = (IF platform = "" THEN "Online" ELSE platform)
           /\ loc.city \notin {"Location unknown", "Country unknown",
                                "Unknown", "XX"}
           /\ loc.country \notin {"Location unknown", "Country unknown",
                                   "Unknown", "XX"}

\* C18: for every entity the entity crawl has persisted in this run, the
\* stored can_scrape_activities flag is true exactly when the entity has an
\* activities slug and the HEAD check of it answered 200; it is false
\* without a slug, on any other status and when the check raised.
C18_CanScrapeFlag ==
    \A s \in Slugs :
        (run = "accounts" /\ s \in SeqToSet(run_processed)) =>
            /\ run_checks[s].checked
            /\ sections[s].present
            /\ sections[s].can_scrape =
                  (run_checks[s].has_slug /\ run_checks[s].head = "200")

C18_Witness ==
    /\ run = "accounts" /\ run_pc = "done"
    /\ \E s, t, u \in SeqToSet(run_processed) :
          /\ run_checks[s].head = "200" /\ sections[s].can_scrape
          /\ run_checks[t].head = "error" /\ ~sections[t].can_scrape
          /\ ~run_checks[u].has_slug /\ ~sections[u].can_scrape

CountryOf(s) == CHOOSE c \in CountryCodes : s \in SeqToSet(SiteSections[c])

\* C19: after a full entity crawl the stored section_count of every country
\* equals the number of stored entities with that country code.
C19_SectionCount ==
    (run = "accounts" /\ run_pc = "done" /\ run_results.returned = "results")
        => \A c \in CountryCodes :
              countries[c].present =>
                  countries[c].section_count =
                      Cardinality({s \in Slugs : sections[s].present
                                                  /\ CountryOf(s) = c})

\* C20: between any two consecutive HTTP requests that one fetch client
\* instance sends, first attempts and retries alike, after a success and
\* after a failure, at least the configured pacing delay elapses.
C20_Pacing == pace.client \in PaceClients => pace.paced

\* C21: every record the detail parser emits has no end date or start_date
\* <= end_date, and participants >= 0; a page whose end date is before its
\* start date, or whose participant count is out of range, gives no record
\* with those values.
C21_RecordRanges ==
    (parse.pc = "done" /\ parse.out # << >>) =>
        LET rec == parse.out[1] IN
        /\ rec.end_date = NoDate \/ rec.start_date <= rec.end_date
        /\ rec.participants >= 0
        /\ parse.doc.participants = "-5" => rec.participants # -5
        /\ parse.doc.participants = "20000" => rec.participants # 20000

C21_Witness ==
    /\ parse.pc = "done" /\ parse.out # << >>
    /\ parse.doc.dates = <<3, 7>>
    /\ parse.out[1].end_date > parse.out[1].start_date
    /\ parse.out[1].participants = 25

\* the listing pages fetched so far in a chunk, in the order in which their
\* fetches completed
InAscendingOrder(pages, chunk_start) ==
    \A k \in 1..Len(pages) :
        /\ pages[k].page = chunk_start + k - 1
        /\ k < Len(pages) => pages[k].status # "404"

\* C22: within one chunk the listing pages are fetched one at a time in
\* strictly ascending order (the fetch of page p+1 does not complete before
\* that of page p), and no page of the chunk is fetched after a lower page
\* of the chunk answered 404.
C22_AscendingPages ==
    ex.pc \in {"page", "task", "done"} =>
        /\ \A c \in 1..Len(ex.log) :
              InAscendingOrder(ex.log[c].pages, ex.log[c].chunk[1])
        /\ ex.pc \in {"page", "task"} =>
              InAscendingOrder(ex.pages, ex.chunks[ex.ci][1])

\* C23: an entity that the crawl run has processed has a last_scraped later
\* than that of every entity the run has not processed, and an entity the
\* run has not processed keeps the last_scraped it had when the run began.
C23_LastRefreshed ==
    run_pc \in {"country", "section", "done"} =>
        \A u \in Slugs \ SeqToSet(run_processed) :
            /\ run_results.returned # "raised" =>
                  sections[u].last_scraped = run_snapshot[u]
            /\ \A s \in SeqToSet(run_processed) :
                  sections[s].last_scraped > sections[u].last_scraped

Crawlable(s) == sections[s].present /\ sections[s].can_scrape

\* C24: under repeated record-crawl runs over a fixed set of entities,
\* every crawlable entity is eventually processed by some run.
C24_NoStarvation ==
    \A s \in Slugs : [](Crawlable(s) => <>(s \in SeqToSet(run_processed)))

TimedOut(t) == dp.task[t].elapsed > dp.timeout

\* C25: a chunk task that has not completed within the per-task timeout is
\* not waited for any longer, and when the dispatcher returns such a task
\* is counted as failed and none of its records are in the result.
C25_TimedOutTaskFails ==
    /\ dp.pc = "waiting" =>
          \A t \in 1..dp.n : dp.task[t].pc = "running" => ~TimedOut(t)
    /\ dp.pc = "returned" =>
          /\ dp.failed = Cardinality({t \in 1..dp.n : TimedOut(t)})
          /\ dp.result = SumRecords(
                 [t \in DpTasks |->
                    IF TimedOut(t) THEN [records |-> 0] ELSE dp.task[t]],
                 dp.n)

StatisticsFailed(doc) == doc.fetch = "failed" \/ ~doc.script

\* C26: when the statistics fetch or parse of an organisation fails,
\* process_organisation_data returns success = False with the message
\* "Failed to scrape statistics" and no organisation, statistics or
\* activity row of the organisation is written.
C26_FailedStatisticsWriteNothing ==
    (stats.pc = "done" /\ stats.path = "legacy"
        /\ StatisticsFailed(stats.doc)) =>
        /\ stats.result = [success |-> FALSE,
                           message |-> "Failed to scrape statistics"]
        /\ stats.organisations = {}
        /\ stats.stored = {}
        /\ stats.activities = 0

\* C27: in the summary of process_all_branches_with_details every branch is
\* counted once (successful + failed + skipped = total) whatever the order
\* in which the worker threads finish, and a branch whose organisation was
\* already in the store with complete data is counted as skipped, not as
\* successful.
C27_SummaryCounts ==
    batch.pc = "returned" =>
        /\ batch.successful + batch.failed + batch.skipped = batch.total
        /\ batch.skipped =
              Cardinality({t \in Threads : w_result[t] = "already exists"})
        /\ batch.successful =
              Cardinality({t \in Threads : w_result[t] = "success"})

\* C28: for every lastPage >= 0 and chunkSize >= 1 the page lists built by
\* extract_section_activities for total_pages = lastPage + 1 and the plan of
\* create_chunks(lastPage, chunkSize) have the same number of chunks, and
\* the i-th page list is exactly the pages start_i..end_i of the i-th chunk
\* of the plan.
C28_SamePartition ==
    cp_pc = "done" =>
        LET pages == page_chunks(cp_lastPage + 1, cp_chunkSize)
        IN  /\ Len(pages) = Len(cp_chunks)
            /\ \A i \in 1..Len(cp_chunks) :
                  pages[i] = PyRange(cp_chunks[i][1], cp_chunks[i][2] + 1, 1)

\* a plan of several chunks whose last chunk is shorter than chunkSize
C28_Witness ==
    /\ cp_pc = "done" /\ Len(cp_chunks) >= 2
    /\ Len(page_chunks(cp_lastPage + 1, cp_chunkSize)[Len(cp_chunks)])
          < cp_chunkSize
    /\ cp_chunks[Len(cp_chunks)][2] = cp_lastPage

\* the entries of a served listing page from article k on, in document
\* order: the articles that carry a title link and an activity link with
\* its href; a page that could not be fetched has none
RECURSIVE EntriesFrom(_, _)
EntriesFrom(served, k) ==
    IF served.html = "None" \/ k > Len(PageEntries) THEN << >>
    ELSE (IF served.shape[k] = "event" THEN <<PageEntries[k]>> ELSE << >>)
         \o EntriesFrom(served, k + 1)

\* the entries of the requested pages k..n, page after page
RECURSIVE LinksFrom(_, _, _)
LinksFrom(requested, served, k) ==
    IF k > Len(requested) THEN << >>
    ELSE [j \in 1..Len(EntriesFrom(served[k], 1)) |->
             <<requested[k], EntriesFrom(served[k], 1)[j]>>]
         \o LinksFrom(requested, served, k + 1)

LegacyLoopShape ==
    LET n == Len(lg.requested)
        links == LinksFrom(lg.requested, lg.served, 1)
        Empty(k) == EntriesFrom(lg.served[k], 1) = << >>
    IN  /\ lg.pc # "raised"
        /\ lg.requested = [k \in 1..n |-> k - 1]
        /\ \A k \in 1..(n - 1) : ~Empty(k)
        /\ lg.max_pages # 0 => n <= lg.max_pages
        /\ lg.pc = "page" =>
              /\ n > 0 => ~Empty(n)
              /\ lg.max_pages # 0 => n < lg.max_pages
        /\ lg.pc # "page" =>
              /\ n > 0
              /\ Empty(n) \/ n = lg.max_pages
        /\ Len(lg.all_activities) = Len(links)
        /\ \A i \in 1..Len(links) :
              /\ LinkOf(lg.all_activities[i]) = links[i]
              /\ lg.all_activities[i].organisation_id = lg.organisation_id

\* C29: get_all_organisation_activities requests the listing pages 0, 1,
\* 2, ... in ascending order, stops at the first page that yields no entries
\* or after max_pages pages, comes to an end, and returns for every page
\* before the stop one record per entry of that page, in page order, each
\* carrying the organisation id; it never ends by raising instead.
C29_ListingLoop == []LegacyLoopShape /\ <>(lg.pc # "page")

\* C30: on every path of a scraper run (normal return, a failing section,
\* an exception while entering or leaving the scraper's context) every HTTP
\* session that was opened has been closed once and every database
\* connection that was acquired has been released once when the run has
\* ended, and no request is sent on a closed session.
C30_ResourcesReleased ==
    /\ res.closed <= res.opened /\ res.released <= res.acquired
    /\ ~res.sent_on_closed
    /\ res.pc = "ended" =>
          /\ res.closed = res.opened
          /\ res.released = res.acquired

====
